---- MODULE Spec2Model ----
(***************************************************************************)
(* Retrieval refinement engine of the Super-Brain RAG patch                *)
(* (super_brain_rag_patch.js, revision v3, and its revision v6).           *)
(*                                                                         *)
(* Real-valued scores and weights are kept exact as integers: one unit of  *)
(* score (1.0) is ScoreUnit.  A chunk's text is represented by what the    *)
(* code reads from it: the concept list extractRichConcepts returns and    *)
(* the number of matches of each contradiction marker pattern.             *)
(***************************************************************************)
EXTENDS Integers, Sequences, FiniteSets, TLC

VARIABLES
    patch,              \* "v3" or "v6": which revision of the patch is installed
    documents,          \* this.documents
    allChunks,          \* this.allChunks
    superConceptGraph,  \* this.superConceptGraph   (Map concept -> Map neighbour -> weight)
    conceptToChunkIds,  \* this.conceptToChunkIds   (Map concept -> Set of chunk ids)
    chunkConceptsCache, \* this.chunkConceptsCache  (Map chunk id -> concept list)
    chunkToDocMap,      \* this.chunkToDocMap       (Map chunk id -> filename)
    rpc,                \* position of the running patchedRetrieve call
    targetTopK,         \* patchedRetrieve: targetTopK
    relQ,               \* relevance of the chunks for retrievalQuery (calculateRelevanceScore)
    anchors,            \* patchedRetrieve: anchors
    merged,             \* patchedRetrieve / superBrainRunRetrievalRefinement: merged
    probeIdx,           \* probes of the for-of loop already taken
    passes,             \* superBrainRunRetrievalRefinement: passes
    stableHits,         \* superBrainRunRetrievalRefinement: stableHits
    prevChunkCount,     \* superBrainRunRetrievalRefinement: prevChunkCount
    prevDocCount,       \* superBrainRunRetrievalRefinement: prevDocCount
    refinement,         \* the object superBrainRunRetrievalRefinement returned
    advPasses,          \* superBrainRunAdversarialRetrieval: passes
    aggregated,         \* superBrainRunAdversarialRetrieval: aggregated
    adversarialChunks,  \* patchedRetrieve: adversarialChunks
    out,                \* the list patchedRetrieve returned
    outBeforeAdversarial, \* history: out before the adversarial chunks are put in
    lastActivationReport, \* this.lastActivationReport
    lastAdversarialRetrieval, \* this.lastAdversarialRetrieval
    baseCalls,          \* history: calls of the original retrieve made by this call
    baseLog,            \* history: outcome of the initial base retrieval
    passLog,            \* history: one record per executed refinement pass
    advLog,             \* history: per adversarial probe retrieval, whether it threw
    fnName,             \* pure-function harness: the function applied
    fnArgs,             \* pure-function harness: its arguments
    fnResult,           \* pure-function harness: its result
    spc,                \* position of the running patchedSynthesize call
    call,               \* patchedSynthesize: what the call reads of query, profile and window.app
    report,             \* patchedSynthesize: localStats.activationReport
    adversarialRetrieval, \* patchedSynthesize: const adversarialRetrieval
    expanded,           \* superBrainRunModelRefinementLoop: const expanded
    gapCalls,           \* history: retrieve calls the loop issued in this cycle
    conversationHistory, \* this.conversationHistory of the synthesizer
    historySnapshot,    \* patchedSynthesize: const historySnapshot
    appended,           \* history: the entries the original synthesize appended
    otherCall,          \* a second patchedSynthesize call on the same synthesizer
    loopChunks,         \* superBrainRunModelRefinementLoop: chunks
    cycle,              \* superBrainRunModelRefinementLoop: cycle
    modelStableHits,    \* superBrainRunModelRefinementLoop: stableHits
    previousGapCount,   \* superBrainRunModelRefinementLoop: previousGapCount
    model,              \* patchedSynthesize: model
    preCompleteness,    \* localStats.superBrainPreSynthesisCompleteness
    response,           \* patchedSynthesize: result.response
    sources,            \* patchedSynthesize: sources
    malformedCitationSignals, \* patchedSynthesize: malformedCitationSignals
    depthGate,          \* patchedSynthesize: depthGate
    depthRepairAttempts, \* patchedSynthesize: depthRepairAttempts
    meta,               \* result.meta.superBrain of the result patchedSynthesize returned
    generateCalls,      \* history: calls of the original synthesize made by this call
    repairLog,          \* history: one record per call of verifyAndRepairAnswer
    gateLog,            \* history: one record per call of superBrainEvaluateCognitiveDepth
    thrownBy,           \* history: the collaborator whose rejection rejected the call
    generation,         \* history: the number of updateCorpus calls so far
    readGens,           \* history: the corpus generations the running retrieve has read
    hostClasses,        \* the classes of the host page that are defined
    prototypes,         \* per patched method: the wrappers installed on the prototype slot
    bootAt,             \* boot: a call is pending ("timer"), or how the loop ended
    attempt,            \* boot: attempt
    installCalls,       \* history: the number of installPatches runs
    installedVersions,  \* history: PATCH_VERSION of every run that returned true
    methodCall          \* history: the last call of a method through its prototype slot

corpusVars == <<patch, documents, allChunks, superConceptGraph, conceptToChunkIds,
                chunkConceptsCache, chunkToDocMap, generation>>
retrieveVars == <<rpc, targetTopK, relQ, anchors, merged, probeIdx, passes,
                  stableHits, prevChunkCount, prevDocCount, refinement,
                  advPasses, aggregated, adversarialChunks, out, outBeforeAdversarial,
                  baseCalls, baseLog,
                  passLog, advLog, readGens>>
fnVars == <<fnName, fnArgs, fnResult>>
synthVars == <<spc, call, report, adversarialRetrieval, loopChunks, cycle, expanded,
               gapCalls, conversationHistory, historySnapshot, appended, otherCall,
               modelStableHits, previousGapCount,
               model, preCompleteness, response, sources, malformedCitationSignals,
               depthGate, depthRepairAttempts, meta, generateCalls, repairLog,
               gateLog, thrownBy>>
bootVars == <<hostClasses, prototypes, bootAt, attempt, installCalls, installedVersions,
              methodCall>>
vars == <<corpusVars, retrieveVars, lastActivationReport, lastAdversarialRetrieval, fnVars,
         synthVars, bootVars>>

(***************************************************************************)
(* Program constants.                                                      *)
(***************************************************************************)
FULL_SWEEP_MIN_ANCHORS_PER_DOC == 2
DEFAULT_TARGET_K_SMALL == 22
DEFAULT_TARGET_K_MEDIUM == 30
DEFAULT_TARGET_K_LARGE == 42
MAX_MERGED_MULTIPLIER == 3
MAX_LINK_EXPANSION == 28
MAX_RETRIEVAL_REFINEMENT_PASSES == 4
RETRIEVAL_STABLE_CHUNK_DELTA == 3
MAX_ADVERSARIAL_RETRIEVAL_PASSES == 3
MAX_ADVERSARIAL_CHUNKS == 16
MIN_CROSS_SOURCE_DOCS == 2
MaxConceptsPerChunk == 18
MaxSeedConcepts == 14
MaxNeighbors == 5

(***************************************************************************)
(* Bounds of the model.                                                    *)
(***************************************************************************)
MaxBaseLen == 2      \* distinct chunks in a list the base retriever returns
MaxRelevant == 1     \* chunks a query scores as relevant (score 1.0)
MaxTopK == 2         \* largest explicit topK argument
MaxSeeds == 2        \* longest seed list given to expandImplicitConceptLinks
MaxLimit == 3        \* largest limit given to expandImplicitConceptLinks
MaxListLen == 2      \* longest list given to the merge
MaxMergeIds == 2     \* distinct chunk ids in the lists given to the merge
MaxAnchorRelevant == 2  \* chunks a query of the anchor harness scores above zero
MaxRebuilds == 1        \* calls of updateCorpus in a behaviour of the rebuild specification

(***************************************************************************)
(* Fixed-point arithmetic: 1.0 is ScoreUnit.  ScoreUnit is a multiple of   *)
(* every denominator the code's formulas produce (1/d for d <= 6, 0.05,    *)
(* 0.65/0.35 of those, 0.72, 0.08 and 0.09/2 of those).                    *)
(***************************************************************************)
ScoreUnit == 600000

Max(a, b) == IF a >= b THEN a ELSE b
Min(a, b) == IF a <= b THEN a ELSE b
\* Math.ceil(n * p / q) and Math.floor(n * p / q) for naturals
CeilMul(n, p, q) == (n * p + q - 1) \div q
FloorMul(n, p, q) == (n * p) \div q

NoId == 0            \* stands for an undefined or null id
NoConcept == ""      \* stands for an absent bridgeConcept

\* items.slice(0, n)
Take(s, n) == SubSeq(s, 1, Min(Max(n, 0), Len(s)))

Range(s) == {s[i] : i \in 1..Len(s)}

\* the array a sequence-valued expression denotes
Array(f) == f \o <<>>

RECURSIVE Flatten(_)
Flatten(ss) == IF ss = <<>> THEN <<>> ELSE Head(ss) \o Flatten(Tail(ss))

(***************************************************************************)
(* Array.prototype.sort with a comparator "b.key - a.key": a stable sort   *)
(* by descending key.  keys[i] is the key of s[i].                         *)
(***************************************************************************)
SortDesc(s, keys) ==
    LET n == Len(s)
        pos == Array([i \in 1..n |->
                   Cardinality({j \in 1..n : keys[j] > keys[i]
                                             \/ (keys[j] = keys[i] /\ j < i)}) + 1])
    IN Array([k \in 1..n |-> s[CHOOSE i \in 1..n : pos[i] = k]])

SortByScore(s) == SortDesc(s, Array([i \in 1..Len(s) |-> s[i].score]))

(***************************************************************************)
(* uniqBy(items, item => item.id): first occurrence of every key, items    *)
(* whose key is undefined or null dropped.                                 *)
(***************************************************************************)
\* the positions of the items uniqBy keeps: a key that is set and not seen before
FirstOfKey(items, i) ==
    items[i].id # NoId /\ \A j \in 1..(i - 1) : items[j].id # items[i].id

\* a uniqBy that keeps every item (no "seen" test)
uniqByNoSeen(items) == items

uniqBy(items) ==
    LET kept == SelectSeq(Array([i \in 1..Len(items) |-> i]),
                          LAMBDA i : FirstOfKey(items, i))
    IN Array([r \in 1..Len(kept) |-> items[kept[r]]])

\* new Set(list.map(item => item.filename)).size
DocCount(list) == Cardinality({list[i].filename : i \in 1..Len(list)})

Ids(list) == {list[i].id : i \in 1..Len(list)}

NoDuplicateIds(list) ==
    \A i, j \in 1..Len(list) : list[i].id = list[j].id => i = j


(***************************************************************************)
(* JavaScript Map: a sequence of entries [k, v] in insertion order.        *)
(***************************************************************************)
MapHas(m, k) == \E i \in 1..Len(m) : m[i].k = k
MapGet(m, k, default) ==
    IF MapHas(m, k) THEN m[CHOOSE i \in 1..Len(m) : m[i].k = k].v ELSE default
MapSet(m, k, v) ==
    IF MapHas(m, k)
    THEN Array([i \in 1..Len(m) |-> IF m[i].k = k THEN [k |-> k, v |-> v] ELSE m[i]])
    ELSE Append(m, [k |-> k, v |-> v])
SortEntries(m) == SortDesc(m, Array([i \in 1..Len(m) |-> m[i].v]))

\* Set.add on a Set kept as a sequence in insertion order
SetAdd(s, x) == IF x \in Range(s) THEN s ELSE Append(s, x)

RECURSIVE DedupLoop(_, _, _)
DedupLoop(s, i, acc) ==
    IF i > Len(s) THEN acc ELSE DedupLoop(s, i + 1, SetAdd(acc, s[i]))

(***************************************************************************)
(* The corpus.  A chunk is [id, filename, index, text]; text is what the   *)
(* code reads from the chunk's text: concepts, the normalized concept      *)
(* occurrences in extraction order; markers, the match count of each       *)
(* contradiction pattern that matches; keyword, whether the text holds the *)
(* vocabulary of the queries, so that the lexical scorer and the base      *)
(* retriever can hit it.                                                   *)
(***************************************************************************)
Chunk(id, filename, index, concepts, markers, keyword) ==
    [id |-> id, filename |-> filename, index |-> index,
     text |-> [concepts |-> concepts, markers |-> markers, keyword |-> keyword]]

\* no document
EmptyCorpus == <<>>

\* a long document with three passages of four chunks on one concept each,
\* and a one-chunk document
CorpusLong ==
    << [filename |-> "A", chunks |-> << Chunk(1, "A", 0, <<>>, <<>>, FALSE),
                                        Chunk(2, "A", 1, <<>>, <<>>, FALSE),
                                        Chunk(3, "A", 2, <<>>, <<1>>, FALSE),
                                        Chunk(4, "A", 3, <<"p">>, <<>>, TRUE),
                                        Chunk(5, "A", 4, <<"p">>, <<>>, FALSE),
                                        Chunk(6, "A", 5, <<"p", "p">>, <<>>, FALSE),
                                        Chunk(7, "A", 6, <<"p">>, <<>>, FALSE),
                                        Chunk(8, "A", 7, <<"q">>, <<>>, TRUE),
                                        Chunk(9, "A", 8, <<"q">>, <<2>>, FALSE),
                                        Chunk(10, "A", 9, <<"q">>, <<>>, FALSE),
                                        Chunk(11, "A", 10, <<"q">>, <<>>, FALSE),
                                        Chunk(12, "A", 11, <<"r">>, <<>>, TRUE),
                                        Chunk(13, "A", 12, <<"r">>, <<>>, FALSE),
                                        Chunk(14, "A", 13, <<"r">>, <<>>, FALSE),
                                        Chunk(15, "A", 14, <<"r">>, <<>>, FALSE) >>],
       [filename |-> "B", chunks |-> << Chunk(16, "B", 0, <<"s", "t">>, <<3, 1>>, FALSE) >>] >>

\* two documents that share concepts, one long enough for the deep scan
CorpusDeep ==
    << [filename |-> "A", chunks |-> << Chunk(1, "A", 0, <<"x", "y">>, <<>>, FALSE),
                                        Chunk(2, "A", 1, <<"y", "y">>, <<>>, TRUE),
                                        Chunk(3, "A", 2, <<>>, <<1>>, FALSE),
                                        Chunk(4, "A", 3, <<"x", "z">>, <<>>, TRUE) >>],
       [filename |-> "B", chunks |-> << Chunk(5, "B", 0, <<"z", "y">>, <<3, 1>>, TRUE) >>] >>

\* three short documents that share concepts, no contradiction marker
CorpusWide ==
    << [filename |-> "A", chunks |-> << Chunk(1, "A", 0, <<"x", "y", "z">>, <<>>, TRUE),
                                        Chunk(2, "A", 1, <<>>, <<>>, FALSE) >>],
       [filename |-> "B", chunks |-> << Chunk(3, "B", 0, <<"y">>, <<>>, FALSE) >>],
       [filename |-> "C", chunks |-> << Chunk(4, "C", 0, <<"z", "x">>, <<>>, TRUE) >>] >>

Corpora == {EmptyCorpus, CorpusDeep, CorpusWide}

\* the chunk list the host's updateCorpus keeps for a document list
AllChunksOf(docs) == Flatten(Array([d \in 1..Len(docs) |-> docs[d].chunks]))

\* this.chunkLookup.get(id)
HasChunk(id) == \E i \in 1..Len(allChunks) : allChunks[i].id = id
chunkLookup(id) == allChunks[CHOOSE i \in 1..Len(allChunks) : allChunks[i].id = id]

\* a chunk of a document that is not in the corpus: a stale entry of the
\* base retriever's own index
StrayChunk == Chunk(99, "Z", 0, <<>>, <<>>, TRUE)

\* the chunks a query can hit, in corpus order
Hits == SelectSeq(allChunks, LAMBDA c : c.text.keyword)

\* the chunks the base retriever can return
Retrievable == Hits \o <<StrayChunk>>

(***************************************************************************)
(* Result items: copies of chunks with the per-query annotations.          *)
(***************************************************************************)
Item(chunk, score) ==
    [id |-> chunk.id, filename |-> chunk.filename, score |-> score,
     bridgeConcept |-> NoConcept, adversarialSignal |-> 0]

\* calculateRelevanceScore for a query that scores the chunks of rel as relevant
Score(rel, id) == IF id \in rel THEN ScoreUnit ELSE 0

RelevanceSets == {r \in SUBSET Ids(Hits) : Cardinality(r) <= MaxRelevant}

(***************************************************************************)
(* extractRichConcepts: the distinct concepts of the text, at most 28.     *)
(***************************************************************************)
extractRichConcepts(text) == Take(DedupLoop(text.concepts, 1, <<>>), 28)

(***************************************************************************)
(* buildSuperConceptGraph                                                  *)
(***************************************************************************)
addEdge(graph, a, b, weight) ==
    IF a = NoConcept \/ b = NoConcept \/ a = b THEN graph
    ELSE LET neighbors == MapGet(graph, a, <<>>)
         IN MapSet(graph, a, MapSet(neighbors, b, MapGet(neighbors, b, 0) + weight))

\* the pairs (i, j), i < j, in the order of the two nested loops
PairList(n) ==
    Flatten(Array([i \in 1..n |-> Array([k \in 1..(n - i) |-> <<i, i + k>>])]))

\* the nested loops with the edge from conceptList[i] to conceptList[j] only
RECURSIVE AddPairsOneWay(_, _, _, _)
AddPairsOneWay(graph, conceptList, pairs, p) ==
    IF p > Len(pairs) THEN graph
    ELSE LET i == pairs[p][1]
             j == pairs[p][2]
             w == ScoreUnit \div ((j - i) + 1)
         IN AddPairsOneWay(addEdge(graph, conceptList[i], conceptList[j], w),
                           conceptList, pairs, p + 1)

RECURSIVE AddPairs(_, _, _, _)
AddPairs(graph, conceptList, pairs, p) ==
    IF p > Len(pairs) THEN graph
    ELSE LET i == pairs[p][1]
             j == pairs[p][2]
             distance == (j - i) + 1
             w == ScoreUnit \div distance
         IN AddPairs(addEdge(addEdge(graph, conceptList[i], conceptList[j], w),
                             conceptList[j], conceptList[i], w),
                     conceptList, pairs, p + 1)

\* an index that enters a chunk under the first concept of its list only
IndexFirstConcept(c2c, conceptList, i, id) ==
    IF i > Len(conceptList) THEN c2c
    ELSE MapSet(c2c, conceptList[i], SetAdd(MapGet(c2c, conceptList[i], <<>>), id))

RECURSIVE IndexConcepts(_, _, _, _)
IndexConcepts(c2c, conceptList, i, id) ==
    IF i > Len(conceptList) THEN c2c
    ELSE IndexConcepts(MapSet(c2c, conceptList[i],
                              SetAdd(MapGet(c2c, conceptList[i], <<>>), id)),
                       conceptList, i + 1, id)

RECURSIVE GraphLoop(_, _, _)
GraphLoop(chunks, n, acc) ==
    \* (the test on acc is never true: it has the maps of a pass evaluated
    \* before the next pass is entered)
    IF n > Len(chunks) \/ acc.docs # acc.docs THEN acc
    ELSE LET chunk == chunks[n]
             conceptList == Take(extractRichConcepts(chunk.text), MaxConceptsPerChunk)
         IN GraphLoop(chunks, n + 1,
                [graph |-> AddPairs(acc.graph, conceptList, PairList(Len(conceptList)), 1),
                 c2c |-> IndexConcepts(acc.c2c, conceptList, 1, chunk.id),
                 cache |-> MapSet(acc.cache, chunk.id, conceptList),
                 docs |-> MapSet(acc.docs, chunk.id, chunk.filename)])

\* the four maps buildSuperConceptGraph starts from: new Map(), four times
NewMaps == [graph |-> <<>>, c2c |-> <<>>, cache |-> <<>>, docs |-> <<>>]

buildSuperConceptGraph(chunks) == GraphLoop(chunks, 1, NewMaps)


(***************************************************************************)
(* getDocumentAnchors(query, intent): per document the top chunks by       *)
(* relevance and the first chunks by index (the host's                     *)
(* pickEvenlyDistributed is absent, so ordered.slice(0, coverageCount)).   *)
(* rel is the relevance the query gives; broad is intent.broadCoverage.    *)
(***************************************************************************)
\* anchors drawn from the chunks the query scores above zero only
DocAnchorsRelevantOnly(doc, rel, broad) ==
    LET chunks == doc.chunks
        scored == Array([i \in 1..Len(chunks) |-> Item(chunks[i], Score(rel, chunks[i].id))])
    IN Take(SortByScore(SelectSeq(scored, LAMBDA it : it.score > 0)),
            IF broad THEN 2 ELSE 1)

DocAnchors(doc, rel, broad) ==
    LET chunks == doc.chunks
        scored == SortByScore(Array([i \in 1..Len(chunks) |->
                                  Item(chunks[i], Score(rel, chunks[i].id))]))
        topRelevantCount == IF broad THEN 2 ELSE 1
        ordered == SortDesc(chunks, Array([i \in 1..Len(chunks) |-> 0 - chunks[i].index]))
        coverageCount == Max(FULL_SWEEP_MIN_ANCHORS_PER_DOC, IF broad THEN 3 ELSE 2)
        distributed == Take(ordered, coverageCount)
    IN IF Len(chunks) = 0 THEN <<>>
       ELSE Take(scored, topRelevantCount)
            \o Array([i \in 1..Len(distributed) |-> Item(distributed[i], 0)])

getDocumentAnchors(rel, broad) ==
    IF Len(documents) = 0 THEN <<>>
    ELSE uniqBy(Flatten(Array([d \in 1..Len(documents) |->
                                  DocAnchors(documents[d], rel, broad)])))

(***************************************************************************)
(* expandImplicitConceptLinks(seedChunks, query, limit)                    *)
(***************************************************************************)
RECURSIVE AddWeights(_, _, _, _)
AddWeights(weights, concepts, i, base) ==
    IF i > Len(concepts) THEN weights
    ELSE AddWeights(MapSet(weights, concepts[i], MapGet(weights, concepts[i], 0) + base),
                    concepts, i + 1, base)

RECURSIVE SeedConceptWeight(_, _, _)
SeedConceptWeight(seedChunks, n, weights) ==
    IF n > Len(seedChunks) THEN weights
    ELSE LET chunk == seedChunks[n]
             concepts == MapGet(chunkConceptsCache, chunk.id,
                                IF HasChunk(chunk.id)
                                THEN extractRichConcepts(chunkLookup(chunk.id).text)
                                ELSE <<>>)
             base == (IF chunk.score = 0 THEN ScoreUnit \div 5 ELSE chunk.score)
                     + ScoreUnit \div 4
         IN SeedConceptWeight(seedChunks, n + 1, AddWeights(weights, concepts, 1, base))

RECURSIVE AddNeighbors(_, _, _, _)
AddNeighbors(cands, topNeighbors, i, weight) ==
    IF i > Len(topNeighbors) THEN cands
    ELSE LET neighbor == topNeighbors[i].k
             edgeWeight == topNeighbors[i].v
             combined == (weight * 65 + edgeWeight * 35) \div 100
         IN AddNeighbors(MapSet(cands, neighbor, Max(MapGet(cands, neighbor, 0), combined)),
                         topNeighbors, i + 1, weight)

RECURSIVE CandidateConcepts(_, _, _)
CandidateConcepts(topSeedConcepts, n, cands) ==
    IF n > Len(topSeedConcepts) THEN cands
    ELSE LET concept == topSeedConcepts[n].k
             weight == topSeedConcepts[n].v
             own == MapSet(cands, concept, Max(MapGet(cands, concept, 0), weight))
             topNeighbors == Take(SortEntries(MapGet(superConceptGraph, concept, <<>>)),
                                  MaxNeighbors)
         IN CandidateConcepts(topSeedConcepts, n + 1,
                              AddNeighbors(own, topNeighbors, 1, weight))

\* the candidate loop without the seed test
IsSeedNever(seedIds, chunkId) == FALSE

\* the "if (seedIds.has(chunkId)) continue" test of the candidate loop
IsSeed(seedIds, chunkId) == chunkId \in seedIds

BridgeCandidates(cand, seedIds, rel) ==
    LET chunkIds == MapGet(conceptToChunkIds, cand.k, <<>>)
        kept == SelectSeq(chunkIds, LAMBDA id : ~IsSeed(seedIds, id) /\ HasChunk(id))
    IN Array([i \in 1..Len(kept) |->
          [Item(chunkLookup(kept[i]),
                (Score(rel, kept[i]) * 72 + Min(cand.v, 5 * ScoreUnit) * 8) \div 100)
           EXCEPT !.bridgeConcept = cand.k]])

expandImplicitConceptLinks(seedChunks, rel, limit) ==
    IF Len(superConceptGraph) = 0 \/ Len(conceptToChunkIds) = 0 \/ Len(seedChunks) = 0
    THEN <<>>
    ELSE LET seedIds == Ids(seedChunks)
             topSeedConcepts ==
                 Take(SortEntries(SeedConceptWeight(seedChunks, 1, <<>>)), MaxSeedConcepts)
             candidateConcepts == CandidateConcepts(topSeedConcepts, 1, <<>>)
             candidates == Flatten(Array([c \in 1..Len(candidateConcepts) |->
                               BridgeCandidates(candidateConcepts[c], seedIds, rel)]))
         IN Take(uniqBy(SortByScore(candidates)), limit)

(***************************************************************************)
(* enforceDocumentCoverage(results, anchors, topK)                         *)
(***************************************************************************)
\* topK || out.length
Limit(topK, list) == IF topK # 0 THEN topK ELSE Len(list)

RECURSIVE CoverDocsLoop(_, _, _, _, _)
CoverDocsLoop(list, anch, i, topK, targetDocs) ==
    IF i > Len(anch) \/ Len(list) >= Limit(topK, list) THEN list
    ELSE IF \E j \in 1..Len(list) : list[j].filename = anch[i].filename
         THEN CoverDocsLoop(list, anch, i + 1, topK, targetDocs)
         ELSE LET pushed == Append(list, anch[i])
              IN IF DocCount(pushed) >= targetDocs THEN pushed
                 ELSE CoverDocsLoop(pushed, anch, i + 1, topK, targetDocs)

RECURSIVE FillLoop(_, _, _, _)
FillLoop(list, anch, i, topK) ==
    IF i > Len(anch) \/ Len(list) >= Limit(topK, list) THEN list
    ELSE IF anch[i].id \in Ids(list) THEN FillLoop(list, anch, i + 1, topK)
         ELSE FillLoop(Append(list, anch[i]), anch, i + 1, topK)

enforceDocumentCoverage(results, anch, topK) ==
    LET first == uniqBy(results)
        targetDocs == Min(Len(documents),
                          Max(1, CeilMul(IF topK # 0 THEN topK
                                         ELSE IF Len(first) # 0 THEN Len(first) ELSE 1,
                                         7, 10)))
        covered == CoverDocsLoop(first, anch, 1, topK, targetDocs)
        filled == FillLoop(covered, anch, 1, topK)
    IN Take(filled, Limit(topK, filled))

(***************************************************************************)
(* superBrainDeepScanAugment(query, selectedChunks, targetTopK)            *)
(***************************************************************************)
\* uniqBy(out.map(item => item.filename).filter(Boolean), item => item)
DocNames(list) == DedupLoop(Array([i \in 1..Len(list) |-> list[i].filename]), 1, <<>>)

RECURSIVE PushCandidates(_, _, _, _)
PushCandidates(list, cands, i, topK) ==
    IF i > Len(cands) \/ Len(list) >= topK THEN list
    ELSE IF cands[i].id = NoId \/ cands[i].id \in Ids(list)
         THEN PushCandidates(list, cands, i + 1, topK)
         ELSE PushCandidates(Append(list, cands[i]), cands, i + 1, topK)

RECURSIVE DeepScanLoop(_, _, _, _, _)
DeepScanLoop(list, docNames, d, rel, topK) ==
    IF d > Len(docNames) THEN list
    ELSE LET ofDoc == SelectSeq(allChunks, LAMBDA c : c.filename = docNames[d])
             docChunks == SortDesc(ofDoc, Array([i \in 1..Len(ofDoc) |-> 0 - ofDoc[i].index]))
             midIdx == Len(docChunks) \div 2
             lateIdx == FloorMul(Len(docChunks), 8, 10)
             picked == <<docChunks[midIdx + 1], docChunks[lateIdx + 1],
                         docChunks[Len(docChunks)]>>
             candidates == SortByScore(Array([i \in 1..3 |->
                               Item(picked[i], Score(rel, picked[i].id))]))
         IN IF Len(docChunks) < 4 THEN DeepScanLoop(list, docNames, d + 1, rel, topK)
            ELSE LET pushed == PushCandidates(list, candidates, 1, topK)
                 IN IF Len(pushed) >= topK THEN pushed
                    ELSE DeepScanLoop(pushed, docNames, d + 1, rel, topK)

superBrainDeepScanAugment(rel, selectedChunks, topK) ==
    IF Len(DocNames(selectedChunks)) = 0 THEN selectedChunks
    ELSE Take(DeepScanLoop(selectedChunks, DocNames(selectedChunks), 1, rel, topK), topK)


(***************************************************************************)
(* superBrainContradictionSignalScore(text), in units of ScoreUnit.        *)
(***************************************************************************)
RECURSIVE MarkerSum(_, _)
MarkerSum(markers, i) ==
    IF i > Len(markers) THEN 0
    ELSE (IF markers[i] > 0 THEN Min(2, markers[i]) * (ScoreUnit \div 2) ELSE 0)
         + MarkerSum(markers, i + 1)

superBrainContradictionSignalScore(text) == Min(6 * ScoreUnit, MarkerSum(text.markers, 1))

(***************************************************************************)
(* The base retriever (the original retrieve) is an external collaborator: *)
(* a call resolves with a list of copies of chunks, scored by the          *)
(* relevance of the call's query, or it rejects.  The lists are the runs   *)
(* of at most MaxBaseLen consecutive retrievable chunks (cyclically, from  *)
(* some starting chunks), as they are or with their first chunk repeated   *)
(* at the end, and the empty list.                                         *)
(***************************************************************************)
Window(start, n, repeat) ==
    LET run == Array([i \in 1..n |->
                   LET chunk == Retrievable[((start + i - 2) % Len(Retrievable)) + 1]
                   IN chunk])
    IN IF repeat THEN Append(run, run[1]) ELSE run

BaseResults(starts, rel) ==
    {<<>>} \cup
    {Array([i \in 1..Len(w) |-> Item(w[i], Score(rel, w[i].id))]) :
        w \in {Window(start, n, repeat) : start \in starts \cap (1..Len(Retrievable)),
                                          n \in 1..Min(MaxBaseLen, Len(Retrievable)),
                                          repeat \in BOOLEAN}}

\* how a call of the original retrieve settles
Outcomes(starts, rel) ==
    {[threw |-> FALSE, chunks |-> r] : r \in BaseResults(starts, rel)}
    \cup {[threw |-> TRUE, chunks |-> <<>>]}

\* the starting chunks of the runs: any retrievable chunk, any hit, the first hit
AnyStart == 1..Len(Retrievable)
HitStart == 1..Len(Hits)
FirstStart == {1}

NoTopK == 0 - 1      \* stands for topK = null or undefined
TopKArgs == (0..MaxTopK) \cup {NoTopK}

\* superBrainBuildProbeQueries: the probe list holds at least one probe (v3)
\* or two (v6), and at most MAX_RETRIEVAL_REFINEMENT_PASSES * 2
MinProbes == IF patch = "v3" THEN 1 ELSE 2
MaxProbes == MAX_RETRIEVAL_REFINEMENT_PASSES * 2

\* whether the probe list may hold a probe after its first n
MoreProbes(n) == {m \in BOOLEAN : (n < MinProbes => m) /\ (n >= MaxProbes => ~m)}

\* a loop without the pass budget
BudgetSpentNever(p) == FALSE

\* if (passes >= MAX_RETRIEVAL_REFINEMENT_PASSES) break;
BudgetSpent(p) == p >= MAX_RETRIEVAL_REFINEMENT_PASSES

\* whether the for-of loop enters its body again after a pass that did not
\* break: the list holds a further probe and the budget is not spent
LoopGoesOn(n, p) == {m /\ ~BudgetSpent(p) : m \in MoreProbes(n)}

\* superBrainBuildAdversarialQueries pushes three probes before any test:
\* the for-of loop has a probe for every pass of the budget
MinAdversarialProbes == 3

\* ... and returns uniqBy(probes).slice(0, MAX_ADVERSARIAL_RETRIEVAL_PASSES + 2)
MaxAdversarialProbes == MAX_ADVERSARIAL_RETRIEVAL_PASSES + 2
MoreAdversarialProbes(n) ==
    {m \in BOOLEAN : (n < MinAdversarialProbes => m) /\ (n >= MaxAdversarialProbes => ~m)}

\* if (passes >= MAX_ADVERSARIAL_RETRIEVAL_PASSES) break
AdversarialBudgetSpent(p) == p >= MAX_ADVERSARIAL_RETRIEVAL_PASSES

(***************************************************************************)
(* One pass of the loop of superBrainRunRetrievalRefinement, from the      *)
(* settled base call to the end of the loop body.                          *)
(***************************************************************************)
\* a merge that keeps the probe's chunks only
MergeProbeReplace(acc, mergedProbe) == uniqBy(mergedProbe)

\* merged = uniqBy([...merged, ...mergedProbe], item => item.id)
MergeProbe(acc, mergedProbe) == uniqBy(acc \o mergedProbe)

ProbeMerged(passBase, rel) ==
    LET anch == getDocumentAnchors(rel, TRUE)
        links == expandImplicitConceptLinks(passBase, rel,
                     Max(8, FloorMul(MAX_LINK_EXPANSION, 8, 10)))
    IN uniqBy(passBase \o anch \o links)

\* docDelta <= 0 && chunkDelta <= RETRIEVAL_STABLE_CHUNK_DELTA
IsStablePass(docDelta, chunkDelta) ==
    docDelta <= 0 /\ chunkDelta <= RETRIEVAL_STABLE_CHUNK_DELTA

(***************************************************************************)
(* superBrainRunAdversarialRetrieval: one pass, and the final selection.   *)
(***************************************************************************)
AdvScored(retrieved, rel) ==
    LET mergedProbe == uniqBy(retrieved \o getDocumentAnchors(rel, TRUE))
        scored == Array([i \in 1..Len(mergedProbe) |->
            LET chunk == mergedProbe[i]
                lexical == IF chunk.score # 0 THEN chunk.score ELSE Score(relQ, chunk.id)
                signal == IF HasChunk(chunk.id)
                          THEN superBrainContradictionSignalScore(chunkLookup(chunk.id).text)
                          ELSE 0
            IN [chunk EXCEPT !.score = (lexical * 72 + Min(5 * ScoreUnit, signal) * 9) \div 100,
                             !.adversarialSignal = signal]])
    IN SortByScore(scored)

\* a selection that takes the best-scored candidates, whatever their signal
AdvSelectByScore(agg) ==
    Take(uniqBy(SortByScore(agg)), Min(MAX_ADVERSARIAL_CHUNKS, 8))

\* a selection without slice(0, ...)
AdvSelectUncapped(agg) ==
    LET withSignal == SelectSeq(agg, LAMBDA item : item.adversarialSignal > 0)
    IN IF Len(withSignal) # 0
       THEN uniqBy(SortDesc(withSignal,
                Array([i \in 1..Len(withSignal) |-> withSignal[i].adversarialSignal])))
       ELSE uniqBy(SortByScore(agg))

AdvSelect(agg) ==
    LET withSignal == SelectSeq(agg, LAMBDA item : item.adversarialSignal > 0)
        prioritized == uniqBy(SortDesc(withSignal,
            Array([i \in 1..Len(withSignal) |->
                (withSignal[i].adversarialSignal \div (ScoreUnit \div 2)) * (2 * ScoreUnit)
                + withSignal[i].score])))
    IN IF Len(prioritized) # 0 THEN Take(prioritized, MAX_ADVERSARIAL_CHUNKS)
       ELSE Take(uniqBy(SortByScore(agg)), Min(MAX_ADVERSARIAL_CHUNKS, 8))

(***************************************************************************)
(* patchedRetrieve after the last await: ranking, coverage enforcement,    *)
(* deep scan, cross-source anchors, adversarial injection.                 *)
(***************************************************************************)
requiredDocs == IF Len(documents) >= 7 THEN 3
                ELSE Min(Len(documents), MIN_CROSS_SOURCE_DOCS)

RECURSIVE CrossAnchorLoop(_, _, _, _)
CrossAnchorLoop(list, crossAnchors, i, topK) ==
    IF i > Len(crossAnchors) \/ Len(list) >= topK THEN list
    ELSE LET anchor == crossAnchors[i]
             currentDocs == {list[j].filename : j \in 1..Len(list)}
         IN IF anchor.id = NoId \/ anchor.id \in Ids(list)
            THEN CrossAnchorLoop(list, crossAnchors, i + 1, topK)
            ELSE IF Cardinality(currentDocs) < requiredDocs /\ anchor.filename \in currentDocs
            THEN CrossAnchorLoop(list, crossAnchors, i + 1, topK)
            ELSE CrossAnchorLoop(Append(list, anchor), crossAnchors, i + 1, topK)

\* an injection loop without the membership test
AlreadyInNever(list, chunk) == FALSE

\* the "out.some(item => item.id === chunk.id)" test of the injection loop
AlreadyIn(list, chunk) == chunk.id \in Ids(list)

RECURSIVE InjectLoop(_, _, _, _)
InjectLoop(list, adv, i, topK) ==
    IF i > Len(adv) THEN list
    ELSE IF adv[i].id = NoId \/ AlreadyIn(list, adv[i])
         THEN InjectLoop(list, adv, i + 1, topK)
         ELSE LET next == IF Len(list) < topK THEN Append(list, adv[i])
                          ELSE IF Len(list) = 0 THEN list
                          ELSE [list EXCEPT ![Len(list)] = adv[i]]
              IN IF Len(next) >= topK THEN next
                 ELSE InjectLoop(next, adv, i + 1, topK)

\* ranking, coverage enforcement and deep scan
Ranked(mergedAll) ==
    LET ranked == Take(SortByScore(mergedAll), targetTopK)
        spreadEnforced == enforceDocumentCoverage(ranked, anchors, targetTopK)
    IN superBrainDeepScanAugment(relQ, Take(spreadEnforced, targetTopK), targetTopK)

\* the guard of the cross-source anchor block (broadQuestion is always true:
\* patchedRetrieve sets intent.broadCoverage)
NeedsCrossAnchors(scanned) ==
    Len(documents) >= MIN_CROSS_SOURCE_DOCS /\ DocCount(scanned) < requiredDocs

\* the cross-source anchor block
CrossSourced(scanned) ==
    IF NeedsCrossAnchors(scanned)
    THEN CrossAnchorLoop(scanned, getDocumentAnchors(relQ, TRUE), 1, targetTopK)
    ELSE scanned

Finalize(scanned, adv) ==
    LET crossed == CrossSourced(scanned)
        injected == IF Len(adv) # 0 THEN InjectLoop(crossed, adv, 1, targetTopK)
                    ELSE crossed
    IN Take(injected, targetTopK)

\* buildCorpusActivationReport plus the fields patchedRetrieve adds
ActivationReport(query, list, refn) ==
    [query |-> query,
     totalDocuments |-> Len(documents),
     totalChunks |-> Len(allChunks),
     activatedDocuments |-> DocCount(list),
     activatedChunks |-> Len(list),
     activationCoveragePct |->
         IF Len(documents) # 0
         THEN (DocCount(list) * 200 + Len(documents)) \div (2 * Len(documents))
         ELSE 0,
     retrievalPasses |-> refn.passes,
     retrievalStabilized |-> refn.stabilized,
     requiredCrossSourceDocs |-> requiredDocs,
     currentCrossSourceDocs |-> DocCount(list)]

NoReport == [totalDocuments |-> 0]
NoRefinement == [passes |-> 0]


(***************************************************************************)
(* Initial state: the patch is installed and updateCorpus has loaded one   *)
(* of the corpora, which also built the concept graph.                     *)
(***************************************************************************)
IdleRetrieve ==
    /\ rpc = "idle" /\ targetTopK = 0 /\ relQ = {} /\ anchors = <<>> /\ merged = <<>>
    /\ probeIdx = 0 /\ passes = 0 /\ stableHits = 0
    /\ prevChunkCount = 0 /\ prevDocCount = 0 /\ refinement = NoRefinement
    /\ advPasses = 0 /\ aggregated = <<>> /\ adversarialChunks = <<>>
    /\ out = <<>> /\ outBeforeAdversarial = <<>> /\ baseCalls = 0 /\ baseLog = "none" /\ passLog = <<>>
    /\ advLog = <<>>
    /\ readGens = {}

NoFn == fnName = "none" /\ fnArgs = <<>> /\ fnResult = <<>>

\* values of the locals of patchedSynthesize that are not assigned yet
NoCall == [call |-> "none"]
NoModel == [model |-> "none"]
NoVerdict == [verdict |-> "none"]
NoText == [kind |-> "none"]
NoGate == [gate |-> "none"]
NoMeta == [meta |-> "none"]
NoAdversarialRetrieval == [query |-> "none"]

\* historySnapshot.slice(-12), .slice(-2), .slice(-40)
CONTINUITY_ENTRIES == 12
TURN_ENTRIES == 2
HISTORY_CAP == 40

\* s.slice(-n)
TakeLast(s, n) == SubSeq(s, Max(Len(s) - n, 0) + 1, Len(s))

\* the entries a wrapped call appends: who appended them and in which order
NewEntries(by, n) == [i \in 1..n |-> [by |-> by, n |-> i]]

\* finally: this.conversationHistory = [...historySnapshot, ...latestTurn].slice(-40)
HistoryRestored(snapshot, latestTurn) == TakeLast(snapshot \o latestTurn, HISTORY_CAP)

(***************************************************************************)
(* patchMethod, installPatches and boot.  A prototype slot is the host's   *)
(* method (or nothing) and the wrappers put on it, innermost first; a      *)
(* wrapper carries the PATCH_VERSION of the script that made it.           *)
(***************************************************************************)
RetrieverMethods == {"updateCorpus", "retrieve", "retrieveFromChunks"}
SynthesizerMethods == {"synthesize"}
UIMethods == {"sendMessage"}
Methods == RetrieverMethods \cup SynthesizerMethods \cup UIMethods
HostClasses == {"CognitiveRetriever", "CognitiveSynthesizer", "UIController"}

ClassOf(m) ==
    IF m \in RetrieverMethods THEN "CognitiveRetriever"
    ELSE IF m \in SynthesizerMethods THEN "CognitiveSynthesizer"
    ELSE "UIController"

Slot(defined, layers) == [defined |-> defined, layers |-> layers]
NoSlot == Slot(FALSE, <<>>)
NoMethodCall == [method |-> "none", layers |-> 0]

\* a patchMethod without the version marker
AlreadyPatchedNever(slot, version) == FALSE

\* original.__superBrainPatchVersion === PATCH_VERSION
AlreadyPatched(slot, version) ==
    Len(slot.layers) > 0 /\ slot.layers[Len(slot.layers)] = version

patchMethod(slot, klass, classes, version) ==
    IF klass \notin classes THEN slot
    ELSE IF ~slot.defined THEN slot
    ELSE IF AlreadyPatched(slot, version) THEN slot
    ELSE Slot(TRUE, Append(slot.layers, version))

\* typeof CognitiveRetriever === 'function' && typeof CognitiveSynthesizer === 'function'
TargetClassesDefined(classes) ==
    {"CognitiveRetriever", "CognitiveSynthesizer"} \subseteq classes

\* the prototype slots after installPatches
PrototypesAfterInstall(slots, classes, version) ==
    IF ~TargetClassesDefined(classes) THEN slots
    ELSE [m \in Methods |-> patchMethod(slots[m], ClassOf(m), classes, version)]

IsPatched(m) == prototypes[m].layers # <<>>

\* the state the first boot call leaves when the host classes are defined
PatchApplied ==
    /\ hostClasses = HostClasses
    /\ prototypes = [m \in Methods |-> Slot(TRUE, <<patch>>)]
    /\ bootAt = "applied"
    /\ attempt = 0
    /\ installCalls = 1
    /\ installedVersions = <<patch>>
    /\ methodCall = NoMethodCall

NoOtherCall == [at |-> "idle", historySnapshot |-> <<>>, appended |-> <<>>]

\* no call of patchedSynthesize yet
IdleCall ==
    /\ spc = "idle" /\ call = NoCall /\ report = NoReport /\ loopChunks = <<>>
    /\ adversarialRetrieval = NoAdversarialRetrieval
    /\ expanded = <<>> /\ gapCalls = 0
    /\ cycle = 0 /\ modelStableHits = 0 /\ previousGapCount = 0 - 1
    /\ model = NoModel /\ preCompleteness = NoVerdict /\ response = NoText
    /\ sources = <<>> /\ malformedCitationSignals = FALSE /\ depthGate = NoGate
    /\ depthRepairAttempts = 0 /\ meta = NoMeta /\ generateCalls = 0
    /\ repairLog = <<>> /\ gateLog = <<>> /\ thrownBy = "none"
    /\ historySnapshot = <<>> /\ appended = <<>>

\* a fresh session: the patch applied by the first boot call, no call of
\* synthesize yet and an empty conversation history
IdleSynthesize ==
    IdleCall /\ conversationHistory = <<>> /\ otherCall = NoOtherCall /\ PatchApplied

\* patchedUpdateCorpus
CorpusLoaded(docs) ==
    /\ documents = docs
    /\ allChunks = AllChunksOf(documents)
    /\ LET built == buildSuperConceptGraph(allChunks)
       IN /\ superConceptGraph = built.graph
          /\ conceptToChunkIds = built.c2c
          /\ chunkConceptsCache = built.cache
          /\ chunkToDocMap = built.docs
    /\ lastActivationReport = NoReport
    /\ lastAdversarialRetrieval = NoAdversarialRetrieval
    /\ generation = 0

Init ==
    /\ patch \in {"v3", "v6"}
    /\ \E docs \in Corpora : CorpusLoaded(docs)
    /\ IdleRetrieve /\ NoFn /\ IdleSynthesize

\* the long corpus under revision v3
InitLoop ==
    patch = "v3" /\ CorpusLoaded(CorpusLong) /\ IdleRetrieve /\ NoFn /\ IdleSynthesize

(***************************************************************************)
(* The chunk objects of the corpus after a step of patchedRetrieve put its *)
(* per-query annotations (score, bridgeConcept, adversarialSignal) on      *)
(* items: every annotated item is made by a spread, { ...chunk, score },   *)
(* and every sort runs on a new array, so the corpus keeps its fields.     *)
(***************************************************************************)
\* the score written on the chunk object itself: chunk.score = score
ChunksAnnotatedInPlace(items) ==
    Array([i \in 1..Len(allChunks) |->
              IF \E k \in 1..Len(items) : items[k].id = allChunks[i].id
              THEN allChunks[i] @@ ("score" :>
                       items[CHOOSE k \in 1..Len(items) :
                                 items[k].id = allChunks[i].id].score)
              ELSE allChunks[i]])

ChunksAfterAnnotating(items) == allChunks

CorpusAfterStep ==
    /\ allChunks' = ChunksAfterAnnotating(anchors' \o merged' \o aggregated' \o out')
    /\ UNCHANGED <<patch, documents, superConceptGraph, conceptToChunkIds,
                   chunkConceptsCache, chunkToDocMap, generation>>

\* the step reads this.allChunks, this.documents or the concept graph
ReadsCorpus == readGens' = readGens \cup {generation}


(***************************************************************************)
(* patchedRetrieve(query, topK, options): from the call to the first       *)
(* await.  topK is the argument, rel the chunks the query and the probes   *)
(* derived from it score as relevant.  A call reads nothing an earlier     *)
(* call wrote, so a behaviour follows one call.                            *)
(***************************************************************************)
\* a retrieve without the guard for the empty corpus
CorpusIsEmptyNever == FALSE

\* if (!this.allChunks?.length) return [];
CorpusIsEmpty == Len(allChunks) = 0

patchedRetrieve(topK, rel) ==
    /\ rpc = "idle"
    /\ anchors' = <<>> /\ merged' = <<>> /\ probeIdx' = 0 /\ passes' = 0
    /\ stableHits' = 0 /\ prevChunkCount' = 0 /\ prevDocCount' = 0
    /\ refinement' = NoRefinement /\ advPasses' = 0 /\ aggregated' = <<>>
    /\ adversarialChunks' = <<>> /\ out' = <<>> /\ outBeforeAdversarial' = <<>>
    /\ baseLog' = "none" /\ passLog' = <<>>
    /\ advLog' = <<>>
    /\ IF CorpusIsEmpty
       THEN /\ rpc' = "returned"
            /\ targetTopK' = 0 /\ relQ' = {}
            /\ baseCalls' = 0
       ELSE /\ rpc' = "base"
            /\ targetTopK' = IF topK # NoTopK THEN topK
                             ELSE IF Len(allChunks) <= 60 THEN DEFAULT_TARGET_K_SMALL
                             ELSE IF Len(allChunks) <= 240 THEN DEFAULT_TARGET_K_MEDIUM
                             ELSE DEFAULT_TARGET_K_LARGE
            /\ relQ' = rel
            /\ baseCalls' = 1
    /\ CorpusAfterStep
    /\ readGens' = {generation}
    /\ UNCHANGED <<lastActivationReport, lastAdversarialRetrieval, fnVars, synthVars, bootVars>>

\* the query of a retrieve call, told apart by the chunks that are relevant to it
RetrieveQuery(rel) == [relevantTo |-> rel]

\* the query of a retrieve call that the refinement loop makes for a model gap
GapQuery(query) == [gapOf |-> query]

\* this.lastAdversarialRetrieval (the probes are not followed)
AdversarialRetrievalOf(query, advPassCount, adv) ==
    [query |-> query, passes |-> advPassCount,
     chunks |-> Take(adv, MAX_ADVERSARIAL_CHUNKS)]

\* the locals of a call that has returned or thrown
DropLocals ==
    /\ anchors' = <<>> /\ merged' = <<>> /\ aggregated' = <<>>
    /\ probeIdx' = 0 /\ passes' = 0 /\ stableHits' = 0
    /\ prevChunkCount' = 0 /\ prevDocCount' = 0 /\ advPasses' = 0

\* patchedRetrieve from "let ranked = merged" to its return
ReturnFrom(mergedAll, adv, refn) ==
    /\ out' = Finalize(Ranked(mergedAll), adv)
    /\ outBeforeAdversarial' = CrossSourced(Ranked(mergedAll))
    /\ lastActivationReport' = ActivationReport(RetrieveQuery(relQ), out', refn)
    /\ lastAdversarialRetrieval' =
           IF patch = "v6" THEN AdversarialRetrievalOf(RetrieveQuery(relQ), advPasses, adv)
           ELSE lastAdversarialRetrieval
    /\ adversarialChunks' = adv
    /\ rpc' = "returned"
    /\ DropLocals

(***************************************************************************)
(* The initial base retrieval settles.  patchedRetrieve awaits it outside  *)
(* any try block: a rejection rejects patchedRetrieve.  Otherwise the      *)
(* anchors and concept links are merged, superBrainRunRetrievalRefinement  *)
(* starts and calls the original retrieve for its first probe.             *)
(***************************************************************************)
BaseSettled(oc) ==
    /\ rpc = "base"
    /\ UNCHANGED <<lastActivationReport, lastAdversarialRetrieval, fnVars, synthVars, bootVars, targetTopK, relQ,
                   out, outBeforeAdversarial, refinement, adversarialChunks, passLog, advLog, aggregated,
                   advPasses>>
    /\ IF oc.threw
       THEN /\ rpc' = "threw"
            /\ baseLog' = "threw"
            /\ baseCalls' = baseCalls
            /\ DropLocals
       ELSE LET anch == getDocumentAnchors(relQ, TRUE)
                first == uniqBy(oc.chunks \o anch)
                conceptLinked == expandImplicitConceptLinks(first, relQ,
                                     Max(10, CeilMul(targetTopK, 65, 100)))
                seedChunks == uniqBy(first \o conceptLinked)
            IN /\ anchors' = anch
               /\ merged' = seedChunks
               /\ passes' = 1
               /\ stableHits' = 0
               /\ prevChunkCount' = Len(seedChunks)
               /\ prevDocCount' = DocCount(seedChunks)
               /\ probeIdx' = 1
               /\ baseCalls' = baseCalls + 1
               /\ baseLog' = IF DocCount(oc.chunks) < requiredDocs THEN "narrow" ELSE "wide"
               /\ rpc' = "probe"
    /\ CorpusAfterStep
    /\ IF oc.threw THEN UNCHANGED readGens ELSE ReadsCorpus

(***************************************************************************)
(* A probe's base retrieval settles (a rejection is caught: passBase =     *)
(* []), the loop body runs to its end, and the loop goes on to its next    *)
(* probe or superBrainRunRetrievalRefinement returns.  In v3               *)
(* patchedRetrieve then runs to its return; in v6 it starts                *)
(* superBrainRunAdversarialRetrieval, which calls the original retrieve.   *)
(***************************************************************************)
ProbeSettled(oc) ==
    /\ rpc = "probe"
    /\ LET mergedProbe == ProbeMerged(oc.chunks, relQ)
           nextMerged == MergeProbe(merged, mergedProbe)
           chunkCount == Len(nextMerged)
           docCount == DocCount(nextMerged)
           chunkDelta == chunkCount - prevChunkCount
           docDelta == docCount - prevDocCount
           nextStable == IF IsStablePass(docDelta, chunkDelta) THEN stableHits + 1 ELSE 0
           nextPasses == passes + 1
           entry == [threw |-> oc.threw, docsBefore |-> DocCount(merged),
                     docsAfter |-> docCount, chunkDelta |-> chunkDelta,
                     stableHits |-> nextStable]
           refn == [passes |-> nextPasses, stabilized |-> nextStable >= 1]
       IN /\ passLog' = Append(passLog, entry)
          /\ \E goesOn \in (IF nextStable >= 1 THEN {FALSE}
                              ELSE LoopGoesOn(probeIdx, nextPasses)) :
             IF goesOn
             THEN /\ merged' = nextMerged
                  /\ passes' = nextPasses
                  /\ stableHits' = nextStable
                  /\ prevChunkCount' = chunkCount
                  /\ prevDocCount' = docCount
                  /\ probeIdx' = probeIdx + 1
                  /\ baseCalls' = baseCalls + 1
                  /\ rpc' = "probe"
                  /\ UNCHANGED <<refinement, out, outBeforeAdversarial, lastActivationReport, lastAdversarialRetrieval, anchors,
                                 aggregated, advPasses, adversarialChunks>>
             ELSE /\ refinement' = refn
                  /\ IF patch = "v6"
                     THEN /\ merged' = nextMerged
                          /\ passes' = nextPasses
                          /\ stableHits' = nextStable
                          /\ prevChunkCount' = chunkCount
                          /\ prevDocCount' = docCount
                          /\ probeIdx' = probeIdx
                          /\ aggregated' = <<>>
                          /\ advPasses' = 1
                          /\ baseCalls' = baseCalls + 1
                          /\ rpc' = "adv"
                          /\ UNCHANGED <<out, outBeforeAdversarial, lastActivationReport, lastAdversarialRetrieval, anchors,
                                         adversarialChunks>>
                     ELSE /\ ReturnFrom(nextMerged, <<>>, refn)
                          /\ baseCalls' = baseCalls
    /\ CorpusAfterStep
    /\ ReadsCorpus
    /\ UNCHANGED <<fnVars, synthVars, bootVars, targetTopK, relQ, baseLog, advLog>>

(***************************************************************************)
(* v6: an adversarial probe's base retrieval settles (a rejection is       *)
(* caught: retrieved = []); the loop goes on, or the selection is made and *)
(* patchedRetrieve runs to its return.                                     *)
(***************************************************************************)
AdvSettled(oc) ==
    /\ rpc = "adv"
    /\ LET nextAggregated == uniqBy(aggregated \o AdvScored(oc.chunks, relQ))
       IN \E more \in MoreAdversarialProbes(advPasses) :
          IF more /\ ~AdversarialBudgetSpent(advPasses)
          THEN /\ aggregated' = nextAggregated
               /\ advPasses' = advPasses + 1
               /\ baseCalls' = baseCalls + 1
               /\ rpc' = "adv"
               /\ UNCHANGED <<out, outBeforeAdversarial, lastActivationReport, lastAdversarialRetrieval, anchors, merged, probeIdx,
                              passes, stableHits, prevChunkCount, prevDocCount,
                              adversarialChunks>>
          ELSE LET selected == AdvSelect(nextAggregated)
                   mergedAll == IF Len(selected) # 0 THEN uniqBy(merged \o selected)
                                ELSE merged
               IN /\ ReturnFrom(mergedAll, selected, refinement)
                  /\ baseCalls' = baseCalls
    /\ advLog' = Append(advLog, oc.threw)
    /\ CorpusAfterStep
    /\ ReadsCorpus
    /\ UNCHANGED <<fnVars, synthVars, bootVars, targetTopK, relQ, baseLog, refinement,
                   passLog>>

(***************************************************************************)
(* Retrieval over the short corpora, under both revisions.                 *)
(***************************************************************************)
Next ==
    \/ \E topK \in TopKArgs, rel \in RelevanceSets : patchedRetrieve(topK, rel)
    \/ \E oc \in Outcomes(AnyStart, relQ) : BaseSettled(oc)
    \/ \E oc \in Outcomes(AnyStart, relQ) : ProbeSettled(oc)
    \/ \E oc \in Outcomes(FirstStart, relQ) : AdvSettled(oc)

Spec == Init /\ [][Next]_vars

(***************************************************************************)
(* Retrieval over the long corpus, under revision v3.                      *)
(***************************************************************************)
NextLoop ==
    \/ \E topK \in {MaxTopK, NoTopK}, rel \in RelevanceSets : patchedRetrieve(topK, rel)
    \/ \E oc \in Outcomes(HitStart, relQ) : BaseSettled(oc)
    \/ \E oc \in Outcomes(HitStart, relQ) : ProbeSettled(oc)

SpecLoop == InitLoop /\ [][NextLoop]_vars

(***************************************************************************)
(* expandImplicitConceptLinks applied once to a seed list, a query and a   *)
(* limit, over each of the short corpora.  The seeds are copies of corpus  *)
(* chunks or of the stray chunk, scored by the query.                      *)
(***************************************************************************)
SeedLists ==
    UNION {[1..n -> Range(allChunks) \cup {StrayChunk}] : n \in 0..MaxSeeds}

ApplyExpand(seeds, rel, limit) ==
    /\ fnName = "none"
    /\ fnName' = "expandImplicitConceptLinks"
    /\ LET seedChunks == Array([i \in 1..Len(seeds) |->
                               Item(seeds[i], Score(rel, seeds[i].id))])
       IN /\ fnArgs' = <<seedChunks, rel, limit>>
          /\ fnResult' = expandImplicitConceptLinks(seedChunks, rel, limit)
    /\ UNCHANGED <<corpusVars, retrieveVars, lastActivationReport, lastAdversarialRetrieval, synthVars, bootVars>>

InitBridge ==
    /\ patch = "v3"
    /\ \E docs \in Corpora : CorpusLoaded(docs)
    /\ IdleRetrieve /\ NoFn /\ IdleSynthesize

NextBridge ==
    \E seeds \in SeedLists, rel \in RelevanceSets, limit \in 0..MaxLimit :
        ApplyExpand(seeds, rel, limit)

SpecBridge == InitBridge /\ [][NextBridge]_vars

(***************************************************************************)
(* The merge of two chunk lists, uniqBy([...a, ...b], item => item.id),    *)
(* applied once.  The lists hold copies of chunks that differ in their     *)
(* score, and items without an id.                                         *)
(***************************************************************************)
merge(a, b) == uniqBy(a \o b)

MergeItems ==
    {Item(c, sc) : c \in Range(Take(allChunks, MaxMergeIds)), sc \in {0, ScoreUnit}}
    \cup {[Item(StrayChunk, 0) EXCEPT !.id = NoId]}

MergeLists == UNION {[1..n -> MergeItems] : n \in 0..MaxListLen}

ApplyMerge(a, b) ==
    /\ fnName = "none"
    /\ fnName' = "merge"
    /\ fnArgs' = <<a, b>>
    /\ fnResult' = [ab |-> merge(a, b),
                    abb |-> merge(merge(a, b), b),
                    aa |-> merge(a, a)]
    /\ UNCHANGED <<corpusVars, retrieveVars, lastActivationReport, lastAdversarialRetrieval, synthVars, bootVars>>

InitMerge ==
    patch = "v3" /\ CorpusLoaded(CorpusWide) /\ IdleRetrieve /\ NoFn /\ IdleSynthesize

NextMerge == \E a \in MergeLists, b \in MergeLists : ApplyMerge(a, b)

SpecMerge == InitMerge /\ [][NextMerge]_vars

(***************************************************************************)
(* Properties of one retrieve call.                                        *)
(***************************************************************************)
Returned == rpc = "returned"

\* C1: the list the patched retrieve returns holds no two chunks with the
\* same id, whatever the base retriever returned to any of its calls.
C1_NoRepeatedId == Returned => NoDuplicateIds(out)

\* a v6 call returned a list of several chunks, one of them a concept bridge,
\* while a chunk the adversarial retrieval selected was already in the list
C1_Witness ==
    /\ Returned /\ patch = "v6" /\ Len(out) >= 2
    /\ \E i \in 1..Len(out) : out[i].bridgeConcept # NoConcept
    /\ \E i \in 1..Len(adversarialChunks) : adversarialChunks[i].id \in Ids(out)

\* C4 as stated: no failure of a base retrieval makes retrieve throw.
C4_RetrieveNeverThrows == rpc # "threw"

\* C5 as stated: when every document has a chunk, topK is at least
\* requiredDocs and the initial base retrieval returned chunks of fewer than
\* requiredDocs documents, the returned list holds chunks of at least
\* min(N, requiredDocs) documents.
C5_CoverageRestored ==
    (/\ Returned /\ Len(documents) >= 2
     /\ \A d \in 1..Len(documents) : Len(documents[d].chunks) >= 1
     /\ targetTopK >= requiredDocs
     /\ baseLog = "narrow")
    => DocCount(out) >= Min(Len(documents), requiredDocs)

\* C10: with an empty corpus a retrieve call returns the empty list, does
\* not throw and never calls the base retriever.
C10_EmptyCorpus ==
    (Len(allChunks) = 0 /\ rpc # "idle") => (Returned /\ out = <<>> /\ baseCalls = 0)

C10_Witness == Len(allChunks) = 0 /\ Returned /\ baseCalls = 0

\* C3 as stated, for the first probe under v6, whose probe list holds at
\* least two probes, and a corpus whose anchors are the same for every
\* query: when the first probe's base retrieval throws, the loop still
\* executes the second probe.
C3_RemainingProbesRun ==
    (/\ patch = "v6" /\ documents = CorpusWide
     /\ refinement # NoRefinement /\ passLog[1].threw)
    => Len(passLog) >= 2

(***************************************************************************)
(* Properties of the refinement loop.                                      *)
(***************************************************************************)
\* C2: the refinement loop executes at most three probe passes and reports
\* a pass count between 1 and 4, one more than the passes it executed,
\* whatever the probe list and however each probe's base retrieval settles.
C2_PassBudget ==
    /\ Len(passLog) <= 3
    /\ rpc = "probe" => passes <= 3
    /\ refinement # NoRefinement
       => (refinement.passes \in 1..4 /\ refinement.passes = Len(passLog) + 1)

\* the loop used its whole budget of three passes and the third probe threw
C2_Witness ==
    Returned /\ Len(passLog) = 3 /\ passLog[3].threw /\ refinement.passes = 4

QuietPass(i) ==
    /\ passLog[i].docsAfter = passLog[i].docsBefore
    /\ passLog[i].chunkDelta < RETRIEVAL_STABLE_CHUNK_DELTA

\* C7 as stated: after two consecutive quiet passes at most one more pass is
\* executed, and the loop reports stabilized = true.
C7_StopsAfterTwoQuietPasses ==
    \A i \in 1..Len(passLog) :
        (i + 1 <= Len(passLog) /\ QuietPass(i) /\ QuietPass(i + 1))
        => /\ Len(passLog) <= i + 2
           /\ refinement # NoRefinement => refinement.stabilized

\* two consecutive quiet passes
C7_TwoQuietPasses ==
    \E i \in 1..Len(passLog) : i + 1 <= Len(passLog) /\ QuietPass(i) /\ QuietPass(i + 1)

\* the loop executes no pass after a pass it counted as stable
StablePassIsLast ==
    \A i \in 1..Len(passLog) : passLog[i].stableHits >= 1 => i = Len(passLog)

(***************************************************************************)
(* Properties of the pure functions.                                       *)
(***************************************************************************)
\* C8: expandImplicitConceptLinks returns no chunk whose id is the id of one
\* of its seed chunks.
C8_NoSeedReturned ==
    fnName = "expandImplicitConceptLinks" => Ids(fnResult) \cap Ids(fnArgs[1]) = {}

\* a chunk was returned for a concept that a seed chunk of the corpus holds,
\* so that the seed was itself a candidate of that concept
C8_Witness ==
    /\ fnName = "expandImplicitConceptLinks"
    /\ \E r \in 1..Len(fnResult), i \in 1..Len(fnArgs[1]) :
          /\ HasChunk(fnArgs[1][i].id)
          /\ fnResult[r].bridgeConcept
                \in Range(extractRichConcepts(chunkLookup(fnArgs[1][i].id).text))

\* C9: merging a duplicate-free list of chunks with ids with itself yields
\* that list, and merging merge(A, B) with B again yields merge(A, B).
C9_MergeIdempotent ==
    fnName = "merge"
    => /\ (NoDuplicateIds(fnArgs[1]) /\ NoId \notin Ids(fnArgs[1]))
          => fnResult.aa = fnArgs[1]
       /\ fnResult.abb = fnResult.ab

\* A is a duplicate-free list of two chunks; B holds another copy of a chunk
\* of A and a chunk that A lacks
C9_Witness ==
    /\ fnName = "merge"
    /\ Len(fnArgs[1]) = 2 /\ NoDuplicateIds(fnArgs[1]) /\ NoId \notin Ids(fnArgs[1])
    /\ \E i \in 1..Len(fnArgs[1]), j \in 1..Len(fnArgs[2]) :
          fnArgs[1][i].id = fnArgs[2][j].id /\ fnArgs[1][i] # fnArgs[2][j]
    /\ Len(fnArgs[2]) > 0 /\ fnResult.aa = fnArgs[1]



(***************************************************************************)
(* CognitiveSynthesizer.  A query is the set of the patch's query patterns *)
(* it matches; a source is a chunk as synthesize receives it.              *)
(***************************************************************************)
MAX_MENTAL_MODEL_SOURCES == 36
MIN_CITATIONS_FOR_RICH_CORPUS == 4
MAX_MODEL_REFINEMENT_PASSES == 3
MODEL_GAP_THRESHOLD == 6
MAX_GAP_REFINEMENT_QUERIES == 4
MAX_ANALYSIS_REWRITE_ATTEMPTS == 2
MIN_DECISION_REASONING_SIGNALS == 4
MIN_ANALYSIS_REASONING_SIGNALS == 2
MIN_HUMAN_COGNITION_STAGE_SIGNALS == 4
MIN_HUMAN_COGNITION_STAGE_SIGNALS_DECISION == 5

PlainQuery == {}
BroadQuery == {"broad", "adversarial"}
DecisionQuery == {"decision", "adversarial", "perspective"}
DiagnosticQuery == {"diagnostic"}
Queries == {PlainQuery, BroadQuery, DecisionQuery, DiagnosticQuery}

Source(id, filename) == [id |-> id, filename |-> filename]
\* chunks of CorpusWide
SourceA == Source(1, "A")
SourceA2 == Source(2, "A")
SourceB == Source(3, "B")
SourceC == Source(4, "C")

patchedBuildInstructionProfile(query) ==
    [decisionMode |-> "decision" \in query,
     diagnosticMode |-> patch = "v6" /\ "diagnostic" \in query,
     perspectiveMode |-> patch = "v6" /\ "perspective" \in query,
     adversarialMode |-> patch = "v6" /\ "adversarial" \in query]

\* !!instructionProfile?.decisionMode || /\b(overall|across|...)\b/i.test(query)
BroadOrDecision(query, profile) == profile.decisionMode \/ "broad" \in query

\* a run of pushes that skips its last statement
PushesButLast(table) ==
    LET kept == SelectSeq(SubSeq(table, 1, Len(table) - 1), LAMBDA c : c.when)
    IN Array([i \in 1..Len(kept) |-> kept[i].push])

\* the strings a run of "if (cond) reasons.push(text)" statements pushes
Pushes(table) ==
    LET kept == SelectSeq(table, LAMBDA c : c.when)
    IN Array([i \in 1..Len(kept) |-> kept[i].push])

If(cond, text) == [when |-> cond, push |-> text]

(***************************************************************************)
(* superBrainAssessEvidenceCompleteness.  The mental model is its number   *)
(* of gaps.                                                                *)
(***************************************************************************)
\* a requirement that ignores the size of the corpus
AssessRequiredDocsFixed(broad, totalDocs) ==
    IF broad THEN MIN_CROSS_SOURCE_DOCS ELSE 1

AssessRequiredDocs(broad, totalDocs) ==
    IF broad
    THEN (IF totalDocs >= 7 THEN 3 ELSE Min(totalDocs, MIN_CROSS_SOURCE_DOCS))
    ELSE 1

GapCount(mdl) == IF mdl = NoModel THEN 0 ELSE mdl.gaps

CrossSourceShortfall == "Cross-source coverage is insufficient."
LowActivation == "Activation coverage remains low for a broad query."
UnresolvedGaps == "Mental model still has unresolved high-priority evidence gaps."

superBrainAssessEvidenceCompleteness(query, srcs, mdl, activationReport, profile) ==
    LET deduped == uniqBy(srcs)
        sourceCount == Len(deduped)
        docCount == DocCount(deduped)
        totalDocs == IF activationReport.totalDocuments # 0
                     THEN activationReport.totalDocuments ELSE docCount
        broad == BroadOrDecision(query, profile)
        required == AssessRequiredDocs(broad, totalDocs)
        activationCoverage == activationReport.activationCoveragePct
        gapCount == GapCount(mdl)
        reasons == Pushes(<<
            If(sourceCount = 0, "No retrievable evidence was found for the question."),
            If(required > 1 /\ docCount < required, CrossSourceShortfall),
            If(broad /\ totalDocs >= 5 /\ activationCoverage > 0
                     /\ activationCoverage < 22, LowActivation),
            If(gapCount >= MODEL_GAP_THRESHOLD /\ docCount < Max(2, required),
               UnresolvedGaps)>>)
        requested == Pushes(<<
            If(sourceCount = 0, "Primary source documents directly addressing the query"),
            If(required > 1 /\ docCount < required,
               "Additional relevant sources from distinct documents are needed.")>>)
            \o Array([g \in 1..Min(gapCount, 5) |-> "Source material that covers a gap"])
    IN [needsMoreEvidence |-> Len(reasons) > 0,
        sourceCount |-> sourceCount,
        docCount |-> docCount,
        totalDocs |-> totalDocs,
        requiredDocs |-> required,
        activationCoverage |-> activationCoverage,
        reasons |-> DedupLoop(reasons, 1, <<>>),
        requestedDocuments |-> Take(DedupLoop(requested, 1, <<>>), 8)]

\* superBrainBuildMissingEvidenceResponse: the request for the missing material
superBrainBuildMissingEvidenceResponse(completeness) ==
    [kind |-> "missing-evidence",
     reasons |-> completeness.reasons,
     requested |-> completeness.requestedDocuments]


(***************************************************************************)
(* Answer texts.  A text is what the patterns of the gate read from it:    *)
(* marks, the named tests of superBrainEvaluateCognitiveDepth that match;  *)
(* reasoningSignals, the count of causal words; cited, the filenames of    *)
(* its citations in the exact syntax, in text order; loose, those of the   *)
(* citations in a syntax superBrainNormalizeCitationSyntax rewrites.       *)
(***************************************************************************)
BaseMarks ==
    {"hasMentalModelSection", "hasEvidenceSection", "hasUncertaintySection"}
DecisionMarks ==
    {"hasOptionsTradeoffs", "hasRecommendation", "hasRisks", "hasMultipleOptions"}
BriefMarks ==
    {"hasExecutiveSummarySection", "hasDecisionFirst", "hasReasoningPathSection",
     "hasActionableStepsSection", "hasPredictiveModelSection",
     "hasPredictiveHypothesisDisclaimer", "hasTensionResolutionSection",
     "hasContextHierarchySection", "hasHumanLoopSection", "hasFrameworkSection",
     "hasExplicitFactsSection", "hasInferredImplicationsSection",
     "hasPerspectiveSection", "hasAdversarialLine"}
StageMarks ==
    {"hasAttentionFilter", "hasPerceptionInterpretation", "hasDualProcess",
     "hasDecisionStep", "hasActionStep", "hasFeedbackLoop", "hasBiasCheck"}
AllMarks == BaseMarks \cup DecisionMarks \cup BriefMarks \cup StageMarks

Answer(marks, signals, cited, loose) ==
    [kind |-> "answer", marks |-> marks, reasoningSignals |-> signals,
     cited |-> cited, loose |-> loose]

\* an analyst brief with every section, citing two documents
FullBrief == Answer(AllMarks, 4, <<"A", "B">>, <<>>)
\* the same brief with a truncated filename ("report.pdf ...")
TruncatedBrief == Answer(AllMarks \cup {"truncatedFilename"}, 4, <<"A", "B">>, <<>>)
\* the same brief citing one document only
SingleSourceBrief == Answer(AllMarks, 4, <<"A", "A">>, <<>>)
\* the same brief with its second citation written "(Source: B, 2)"
LooseBrief == Answer(AllMarks, 4, <<"A">>, <<"B">>)
\* a plain summary: no section, no causal word, no citation
Summary == Answer({}, 0, <<>>, <<>>)
\* an answer whose only heading is the one on uncertainties
HedgedSummary == Answer({"hasUncertaintySection"}, 1, <<"A">>, <<>>)

Texts == {FullBrief, TruncatedBrief, SingleSourceBrief, LooseBrief, Summary,
          HedgedSummary}

\* what verifyAndRepairAnswer resolves to: a text or nothing
EmptyRepair == [kind |-> "empty"]
RepairTexts == {FullBrief, Summary, SingleSourceBrief}

superBrainNormalizeCitationSyntax(text) ==
    [text EXCEPT !.cited = text.cited \o text.loose, !.loose = <<>>]

superBrainHasMalformedCitationPatterns(text) == "truncatedFilename" \in text.marks

\* the lastIndex of /\[Source: ...\]/gi when the exec loop starts: the literal
\* is evaluated by every call, which gives a new RegExp
CarriedLastIndex(text) == Min(Len(gateLog), Len(text.cited))
RegexLastIndex(text) == 0

superBrainExtractDistinctCitedDocs(text) ==
    DedupLoop(SubSeq(text.cited, RegexLastIndex(text) + 1, Len(text.cited)), 1, <<>>)

Has(text, mark) == mark \in text.marks


(***************************************************************************)
(* superBrainEvaluateCognitiveDepth, called with diagnostics = null (the   *)
(* host's buildClaimCitationDiagnostics is not part of the patch), which   *)
(* makes hasCitationCoverage and hasCitationPrecision true.                *)
(***************************************************************************)
\* a verdict that ignores the reasons
GatePassedAlways(reasons) == TRUE

\* passed: reasons.length === 0
GatePassed(reasons) == Len(reasons) = 0

BaseChecks(text, profile) ==
    <<If(~Has(text, "hasMentalModelSection"), "Missing explicit Mental Model section."),
      If(~Has(text, "hasEvidenceSection"),
         "Missing explicit evidence-based analysis section."),
      If(~Has(text, "hasUncertaintySection"),
         "Missing Uncertainties & Missing Information section."),
      If(text.reasoningSignals <
             (IF profile.decisionMode THEN MIN_DECISION_REASONING_SIGNALS
                                      ELSE MIN_ANALYSIS_REASONING_SIGNALS),
         "Reasoning depth is weak (insufficient causal/trade-off signals).")>>

CrossSourceChecks(query, text, profile, srcs) ==
    LET sourceDocCount == DocCount(srcs)
        citedDocs == superBrainExtractDistinctCitedDocs(text)
        crossSourceExpected ==
            BroadOrDecision(query, profile) /\ sourceDocCount >= MIN_CROSS_SOURCE_DOCS
        crossSourceSatisfied ==
            ~crossSourceExpected
            \/ Len(citedDocs) >= Min(MIN_CROSS_SOURCE_DOCS, sourceDocCount)
    IN <<If(~crossSourceSatisfied,
            "Cross-source reasoning is weak (insufficient distinct cited documents).")>>

DecisionChecks(text, profile) ==
    <<If(profile.decisionMode /\ ~Has(text, "hasOptionsTradeoffs"),
         "Decision output missing Options & Trade-offs."),
      If(profile.decisionMode /\ ~Has(text, "hasRecommendation"),
         "Decision output missing explicit recommendation."),
      If(profile.decisionMode /\ ~Has(text, "hasRisks"),
         "Decision output missing explicit risk analysis."),
      If(profile.decisionMode /\ ~Has(text, "hasMultipleOptions"),
         "Decision output does not compare multiple concrete options.")>>

\* the checks version 6 runs before the ones it shares with version 3
BriefChecks(text) ==
    <<If(~Has(text, "hasExecutiveSummarySection"), "Missing Executive Summary section."),
      If(~Has(text, "hasDecisionFirst"),
         "Output must start with a definitive decision before supporting detail."),
      If(~Has(text, "hasReasoningPathSection"), "Missing explicit Reasoning Path section."),
      If(~Has(text, "hasActionableStepsSection"),
         "Missing explicit actionable steps / next steps section."),
      If(~Has(text, "hasPredictiveModelSection"), "Missing Predictive Model section."),
      If(~Has(text, "hasPredictiveHypothesisDisclaimer"),
         "Predictive model must be labeled as a provisional hypothesis."),
      If(~Has(text, "hasTensionResolutionSection"),
         "Missing prediction-error/tension-resolution section."),
      If(~Has(text, "hasContextHierarchySection"),
         "Missing contextual hierarchy weighting section."),
      If(Has(text, "listStyleDocNarration"),
         "Response uses list-style document narration.")>>

FrameworkChecks(text) ==
    <<If(~Has(text, "hasFrameworkSection"), "Missing a structured analytical framework."),
      If(~(Has(text, "hasExplicitFactsSection")
           /\ Has(text, "hasInferredImplicationsSection")),
         "Missing explicit distinction between facts and inferred implications.")>>

StageChecks(query, text, profile, activationReport) ==
    LET stageSignalCount == Cardinality(text.marks \cap StageMarks)
        minStageSignals == IF profile.decisionMode
                           THEN MIN_HUMAN_COGNITION_STAGE_SIGNALS_DECISION
                           ELSE MIN_HUMAN_COGNITION_STAGE_SIGNALS
        requiredStages ==
            {"hasAttentionFilter", "hasPerceptionInterpretation", "hasActionStep",
             "hasFeedbackLoop"}
            \cup (IF profile.decisionMode THEN {"hasDecisionStep"} ELSE {})
        perspectiveMode == profile.perspectiveMode \/ "perspective" \in query
        adversarialMode == profile.adversarialMode \/ BroadOrDecision(query, profile)
    IN <<If(Has(text, "sectionsOutOfOrder"),
            "Output is not organized as a cohesive analyst brief."),
         If(adversarialMode /\ activationReport.adversarialChunks > 0
                /\ ~Has(text, "hasAdversarialLine"),
            "Missing required adversarial statement."),
         If(perspectiveMode /\ ~Has(text, "hasPerspectiveSection"),
            "Perspective-taking is missing (need at least two stakeholder viewpoints)."),
         If(stageSignalCount < minStageSignals, "Human cognitive cycle is incomplete."),
         If(requiredStages \ text.marks # {}, "Missing required cognitive stages."),
         If(profile.decisionMode /\ ~Has(text, "hasDualProcess"),
            "Decision analysis must include dual-process reasoning."),
         If(~Has(text, "hasBiasCheck"),
            "Missing heuristic/bias risk check and mitigation.")>>

GateChecks(query, text, profile, srcs, activationReport) ==
    IF patch = "v3"
    THEN BaseChecks(text, profile) \o CrossSourceChecks(query, text, profile, srcs)
         \o DecisionChecks(text, profile)
    ELSE BriefChecks(text)
         \o SubSeq(BaseChecks(text, profile), 1, 1)
         \o <<If(~Has(text, "hasHumanLoopSection"),
                 "Missing Human Cognitive Processing Loop section.")>>
         \o SubSeq(BaseChecks(text, profile), 2, 2)
         \o FrameworkChecks(text)
         \o SubSeq(BaseChecks(text, profile), 3, 4)
         \o CrossSourceChecks(query, text, profile, srcs)
         \o StageChecks(query, text, profile, activationReport)
         \o DecisionChecks(text, profile)

superBrainEvaluateCognitiveDepth(query, text, profile, srcs, activationReport) ==
    IF profile.diagnosticMode
    THEN [passed |-> TRUE, reasons |-> <<>>, sourceDocCount |-> 0, citedDocCount |-> 0,
          adversarialEvidenceAvailable |-> FALSE]
    ELSE LET reasons == Pushes(GateChecks(query, text, profile, srcs, activationReport))
         IN [passed |-> GatePassed(reasons),
             reasons |-> reasons,
             sourceDocCount |-> DocCount(srcs),
             citedDocCount |-> Len(superBrainExtractDistinctCitedDocs(text)),
             adversarialEvidenceAvailable |->
                 patch = "v6" /\ activationReport.adversarialChunks > 0]


(***************************************************************************)
(* patchedSynthesize and superBrainRunModelRefinementLoop, one action per  *)
(* await.  The host's countCitations and buildClaimCitationDiagnostics are *)
(* not part of the patch: citationCount is 0 and diagnostics is null, the  *)
(* values the patch falls back to.  attachmentContext is null.             *)
(***************************************************************************)
SynthReport(total, coverage, adversarial) ==
    [totalDocuments |-> total, activationCoveragePct |-> coverage,
     adversarialChunks |-> adversarial]

\* the fields of a retriever report the synthesizer reads
ReadReport(r) ==
    [query |-> r.query, totalDocuments |-> r.totalDocuments,
     activationCoveragePct |-> r.activationCoveragePct,
     adversarialChunks |-> IF "adversarialChunks" \in DOMAIN r THEN r.adversarialChunks
                           ELSE 0]

\* the report patchedSynthesize builds when corpusStats carries none
DefaultReport(relevantChunks) ==
    SynthReport(DocCount(relevantChunks), 100, 0)

SingleDocReport == SynthReport(1, 100, 0)
LowCoverageReport == SynthReport(5, 20, 1)
LargeCorpusReport == SynthReport(7, 43, 0)
StatsReports == {NoReport, SingleDocReport, LowCoverageReport, LargeCorpusReport}

RelevantLists == {<<>>, <<SourceA>>, <<SourceA, SourceB>>, <<SourceB, SourceA, SourceB>>}
ExpandedLists == {<<>>, <<SourceB>>, <<SourceA, SourceA2>>, <<SourceB, SourceC>>}
GapCounts == {0, MODEL_GAP_THRESHOLD}

\* localStats.activationReport before the refinement loop
StartReport(statsReport, relevantChunks) ==
    IF statsReport # NoReport THEN statsReport
    ELSE DefaultReport(relevantChunks)

\* localStats.activationReport after the refinement loop: the report the
\* retriever holds at that moment replaces the one of the call
ReportAfterLoop(retrieverReport) ==
    IF patch = "v6" /\ call.retriever /\ retrieverReport # NoReport
    THEN ReadReport(retrieverReport)
    ELSE report

\* const adversarialRetrieval: corpusStats carries no superBrainAdversarialRetrieval
\* (patchedSynthesize writes it to its own copy only), so it is the retriever's
\* field when there is one, else the empty default
AdversarialAfterLoop(retrieverAdversarial) ==
    IF patch # "v6" THEN adversarialRetrieval
    ELSE IF call.retriever /\ retrieverAdversarial # NoAdversarialRetrieval
    THEN retrieverAdversarial
    ELSE [query |-> [asked |-> call.query], passes |-> 0, chunks |-> <<>>]

patchedSynthesize(query, relevantChunks, statsReport, retriever) ==
    /\ spc = "idle"
    /\ call' = [query |-> query, relevantChunks |-> relevantChunks,
                profile |-> patchedBuildInstructionProfile(query),
                retriever |-> retriever]
    /\ report' = StartReport(statsReport, relevantChunks)
    /\ adversarialRetrieval' = NoAdversarialRetrieval
    /\ loopChunks' = uniqBy(relevantChunks)
    /\ cycle' = 0
    /\ expanded' = <<>> /\ gapCalls' = 0
    /\ historySnapshot' = <<>> /\ appended' = <<>>
    /\ UNCHANGED <<conversationHistory, otherCall>>
    /\ modelStableHits' = 0
    /\ previousGapCount' = 0 - 1
    /\ spc' = "model"
    /\ UNCHANGED <<model, preCompleteness, response, sources, malformedCitationSignals,
                   depthGate, depthRepairAttempts, meta, generateCalls, repairLog,
                   gateLog, thrownBy>>
    /\ UNCHANGED <<corpusVars, retrieveVars, lastActivationReport, lastAdversarialRetrieval, fnVars, bootVars>>

\* the refinement loop returns and patchedSynthesize calls the original synthesize
LoopReturns(refinedChunks, retrieverReport, retrieverAdversarial) ==
    /\ report' = ReportAfterLoop(retrieverReport)
    /\ adversarialRetrieval' = AdversarialAfterLoop(retrieverAdversarial)
    /\ loopChunks' = refinedChunks
    /\ cycle' = 0
    /\ expanded' = <<>> /\ gapCalls' = 0
    /\ historySnapshot' = conversationHistory
    /\ conversationHistory' = TakeLast(conversationHistory, CONTINUITY_ENTRIES)
    /\ UNCHANGED appended
    /\ modelStableHits' = 0
    /\ previousGapCount' = 0 - 1
    /\ generateCalls' = generateCalls + 1
    /\ spc' = "draft"

\* superBrainBuildModel settled (it catches the failures of callCompletion)
ModelBuilt(gaps) ==
    /\ spc = "model"
    /\ LET built == [gaps |-> gaps]
           completeness ==
               superBrainAssessEvidenceCompleteness(
                   call.query, Take(uniqBy(loopChunks), MAX_MENTAL_MODEL_SOURCES * 2),
                   built, report, call.profile)
           hits == IF previousGapCount >= 0
                      /\ Max(gaps - previousGapCount, previousGapCount - gaps) <= 1
                   THEN modelStableHits + 1 ELSE 0
           shouldRetrieveAgain ==
               /\ completeness.needsMoreEvidence
               /\ BroadOrDecision(call.query, call.profile)
               /\ call.retriever
               /\ hits < 1
       IN /\ model' = built
          /\ preCompleteness' = completeness
          /\ IF shouldRetrieveAgain
             THEN /\ spc' = "gaps"
                  /\ modelStableHits' = hits
                  /\ previousGapCount' = gaps
                  /\ expanded' = <<>>
                  /\ gapCalls' = 1
                  /\ UNCHANGED <<conversationHistory, historySnapshot, appended>>
                  /\ UNCHANGED <<report, adversarialRetrieval, loopChunks, cycle,
                                 generateCalls>>
             ELSE LoopReturns(loopChunks, lastActivationReport, lastAdversarialRetrieval)
    /\ UNCHANGED <<call, otherCall, response, sources, malformedCitationSignals,
                   depthGate, depthRepairAttempts, meta, repairLog, gateLog, thrownBy>>
    /\ UNCHANGED <<corpusVars, retrieveVars, lastActivationReport, lastAdversarialRetrieval,
                   fnVars, bootVars>>

\* superBrainBuildGapDrivenQueries(query, model).length: two fixed queries and
\* one per gap of the first MAX_GAP_REFINEMENT_QUERIES gaps (the gaps of a model
\* are distinct and not blank)
GapQueryCount(gaps) ==
    Min(2 + Min(gaps, MAX_GAP_REFINEMENT_QUERIES), MAX_GAP_REFINEMENT_QUERIES + 2)

\* a loop over every gap query
GapQueriesUnsliced(gaps) == GapQueryCount(gaps)

\* gapQueries.slice(0, MAX_GAP_REFINEMENT_QUERIES).length
GapQueriesIssued(gaps) == Min(GapQueryCount(gaps), MAX_GAP_REFINEMENT_QUERIES)

\* what a gap-driven retrieve call settles with: a list of chunks or a rejection
GapOutcomes ==
    {[threw |-> FALSE, chunks |-> r] : r \in ExpandedLists}
    \cup {[threw |-> TRUE, chunks |-> <<>>]}

\* the merge after the gap queries of a cycle
GapsRetrieved(allExpanded, retrieverReport, retrieverAdversarial) ==
    LET mergedChunks == uniqBy(loopChunks \o allExpanded)
    IN IF allExpanded = <<>> \/ Len(mergedChunks) <= Len(loopChunks) + 1
       THEN LoopReturns(loopChunks, retrieverReport, retrieverAdversarial)
       ELSE IF cycle + 1 < MAX_MODEL_REFINEMENT_PASSES
       THEN /\ loopChunks' = mergedChunks
            /\ cycle' = cycle + 1
            /\ expanded' = <<>> /\ gapCalls' = 0
            /\ spc' = "model"
            /\ UNCHANGED <<conversationHistory, historySnapshot, appended>>
            /\ UNCHANGED <<report, adversarialRetrieval, modelStableHits,
                           previousGapCount, generateCalls>>
       ELSE LoopReturns(mergedChunks, retrieverReport, retrieverAdversarial)

\* one gap-driven retrieve call settled (a rejection is caught); the next gap
\* query is retrieved, or the cycle goes on to the merge
GapRetrieved(oc) ==
    /\ spc = "gaps"
    /\ lastActivationReport' =
           IF oc.threw THEN lastActivationReport
           ELSE ActivationReport(GapQuery(call.query), oc.chunks,
                                 [passes |-> 1, stabilized |-> TRUE])
    /\ lastAdversarialRetrieval' =
           IF oc.threw \/ patch # "v6" THEN lastAdversarialRetrieval
           ELSE AdversarialRetrievalOf(GapQuery(call.query), 0, <<>>)
    /\ IF gapCalls < GapQueriesIssued(model.gaps)
       THEN /\ expanded' = expanded \o oc.chunks
            /\ gapCalls' = gapCalls + 1
            /\ UNCHANGED <<conversationHistory, historySnapshot, appended>>
            /\ UNCHANGED <<spc, report, adversarialRetrieval, loopChunks, cycle,
                           modelStableHits, previousGapCount, generateCalls>>
       ELSE GapsRetrieved(expanded \o oc.chunks, lastActivationReport',
                          lastAdversarialRetrieval')
    /\ UNCHANGED <<call, otherCall, model, preCompleteness, response, sources,
                   malformedCitationSignals, depthGate, depthRepairAttempts, meta,
                   repairLog, gateLog, thrownBy>>
    /\ UNCHANGED <<corpusVars, retrieveVars, fnVars, bootVars>>

DiagnosticMode == patch = "v6" /\ call.profile.diagnosticMode

MinCitationTarget(srcs) ==
    IF Len(srcs) >= 10 THEN MIN_CITATIONS_FOR_RICH_CORPUS
    ELSE IF Len(srcs) >= 4 THEN 2 ELSE IF Len(srcs) > 0 THEN 1 ELSE 0

RequiresAdditionalRepair(text, srcs, gate) ==
    /\ ~DiagnosticMode
    /\ \/ 0 < MinCitationTarget(srcs)
       \/ ~Has(text, "hasUncertaintySection")
       \/ superBrainHasMalformedCitationPatterns(text)
       \/ ~gate.passed

\* a rewrite loop that never counts its attempts
RewriteBudgetSpentNever(attempts) == FALSE

RewriteBudgetSpent(attempts) == attempts >= MAX_ANALYSIS_REWRITE_ATTEMPTS

RewriteWanted(gate, attempts) ==
    ~DiagnosticMode /\ ~gate.passed /\ ~RewriteBudgetSpent(attempts)

ShouldRequestMoreEvidence(completeness, srcs) ==
    /\ completeness.needsMoreEvidence
    /\ ~DiagnosticMode
    /\ \/ Len(srcs) = 0
       \/ completeness.docCount < completeness.requiredDocs
       \/ /\ GapCount(model) >= MODEL_GAP_THRESHOLD
          /\ completeness.docCount < Max(2, completeness.requiredDocs)

Evaluate(text, srcs) ==
    superBrainEvaluateCognitiveDepth(call.query, text, call.profile, srcs, report)

GateEntry(text, srcs) == [text |-> text, sources |-> srcs, result |-> Evaluate(text, srcs)]
RepairEntry(phase, gate) == [phase |-> phase, gatePassed |-> gate.passed, outcome |-> "pending"]
Settled(log, outcome) == [log EXCEPT ![Len(log)].outcome = outcome]

\* the final completeness verdict, the response and the meta of the result
Return(text, srcs, gate, attempts) ==
    LET completeness ==
            superBrainAssessEvidenceCompleteness(call.query, srcs, model, report,
                                                 call.profile)
    IN /\ response' = IF ShouldRequestMoreEvidence(completeness, srcs)
                      THEN superBrainBuildMissingEvidenceResponse(completeness)
                      ELSE text
       /\ meta' = [evidenceCompleteness |-> completeness,
                   cognitiveDepthGate |-> gate,
                   cognitiveDepthRepairs |-> attempts]
       /\ spc' = "returned"

\* the test of the rewrite loop, then either the next repair call or the return
RewriteOrReturn(text, srcs, gate, attempts, log) ==
    /\ depthGate' = gate
    /\ depthRepairAttempts' = attempts
    /\ malformedCitationSignals' = superBrainHasMalformedCitationPatterns(text)
    /\ IF RewriteWanted(gate, attempts)
       THEN /\ spc' = "rewrite"
            /\ response' = text
            /\ repairLog' = Append(log, RepairEntry("rewrite", gate))
            /\ UNCHANGED meta
       ELSE /\ Return(text, srcs, gate, attempts)
            /\ repairLog' = log

Rejects(by) ==
    /\ spc' = "threw"
    /\ thrownBy' = by

\* the original synthesize settled
DraftSettled(oc) ==
    /\ spc = "draft"
    /\ appended' = oc.appended
    /\ conversationHistory' =
           HistoryRestored(historySnapshot,
                           IF oc.kind = "throw" THEN <<>>
                           ELSE TakeLast(conversationHistory \o oc.appended,
                                         TURN_ENTRIES))
    /\ CASE oc.kind = "throw" ->
              /\ Rejects("synthesize")
              /\ UNCHANGED <<response, sources, malformedCitationSignals, depthGate,
                             depthRepairAttempts, meta, repairLog, gateLog>>
         [] oc.kind = "raw" ->
              /\ spc' = "returned"
              /\ response' = [kind |-> "raw"]
              /\ UNCHANGED <<sources, malformedCitationSignals, depthGate,
                             depthRepairAttempts, meta, repairLog, gateLog, thrownBy>>
         [] OTHER ->
              LET text == superBrainNormalizeCitationSyntax(oc.response)
                  gate == Evaluate(text, oc.sources)
              IN /\ sources' = oc.sources
                 /\ gateLog' = Append(gateLog, GateEntry(text, oc.sources))
                 /\ UNCHANGED thrownBy
                 /\ IF RequiresAdditionalRepair(text, oc.sources, gate)
                    THEN /\ spc' = "repair"
                         /\ response' = text
                         /\ depthGate' = gate
                         /\ malformedCitationSignals' =
                                superBrainHasMalformedCitationPatterns(text)
                         /\ repairLog' = Append(repairLog, RepairEntry("repair", gate))
                         /\ UNCHANGED <<depthRepairAttempts, meta>>
                    ELSE RewriteOrReturn(text, oc.sources, gate, 0, repairLog)
    /\ UNCHANGED <<call, report, adversarialRetrieval, loopChunks, cycle, expanded, gapCalls,
                   historySnapshot, otherCall, modelStableHits, previousGapCount,
                   model, preCompleteness, generateCalls>>
    /\ UNCHANGED <<corpusVars, retrieveVars, lastActivationReport, lastAdversarialRetrieval, fnVars, bootVars>>

\* the host's synthesize appends the user's and the assistant's entry of the
\* turn when it resolves
DraftOutcomes ==
    {[kind |-> "throw", appended |-> <<>>],
     [kind |-> "raw", appended |-> NewEntries("call", TURN_ENTRIES)]}
    \cup {[kind |-> "result", response |-> t, sources |-> srcs,
            appended |-> NewEntries("call", TURN_ENTRIES)] :
              t \in Texts, srcs \in {loopChunks, <<>>}}

\* verifyAndRepairAnswer settled: the first repair or one pass of the rewrite loop
RepairSettled(oc) ==
    /\ spc \in {"repair", "rewrite"}
    /\ CASE oc.kind = "throw" ->
              /\ Rejects("verifyAndRepairAnswer")
              /\ repairLog' = Settled(repairLog, "threw")
              /\ UNCHANGED <<response, malformedCitationSignals, depthGate,
                             depthRepairAttempts, meta, gateLog>>
         [] oc.kind = "empty" ->
              /\ UNCHANGED <<gateLog, thrownBy>>
              /\ IF spc = "repair"
                 THEN RewriteOrReturn(response, sources, depthGate, 0,
                                      Settled(repairLog, "empty"))
                 ELSE /\ Return(response, sources, depthGate, depthRepairAttempts)
                      /\ repairLog' = Settled(repairLog, "empty")
                      /\ UNCHANGED <<malformedCitationSignals, depthGate,
                                     depthRepairAttempts>>
         [] OTHER ->
              LET text == superBrainNormalizeCitationSyntax(oc)
              IN /\ gateLog' = Append(gateLog, GateEntry(text, sources))
                 /\ UNCHANGED thrownBy
                 /\ RewriteOrReturn(text, sources, Evaluate(text, sources),
                                    IF spc = "repair" THEN 0
                                    ELSE depthRepairAttempts + 1,
                                    Settled(repairLog, "text"))
    /\ UNCHANGED <<call, report, adversarialRetrieval, loopChunks, cycle, expanded, gapCalls,
                   conversationHistory, historySnapshot, appended, otherCall,
                   modelStableHits, previousGapCount,
                   model, preCompleteness, sources, generateCalls>>
    /\ UNCHANGED <<corpusVars, retrieveVars, lastActivationReport, lastAdversarialRetrieval, fnVars, bootVars>>

RepairOutcomes == {[kind |-> "throw"], EmptyRepair} \cup RepairTexts

\* the corpus is loaded; under version 6 the retriever may have served a query
InitSynth ==
    /\ patch \in {"v3", "v6"}
    /\ documents = CorpusWide
    /\ allChunks = AllChunksOf(documents)
    /\ LET built == buildSuperConceptGraph(allChunks)
       IN /\ superConceptGraph = built.graph
          /\ conceptToChunkIds = built.c2c
          /\ chunkConceptsCache = built.cache
          /\ chunkToDocMap = built.docs
    /\ generation = 0
    /\ \E earlier \in BOOLEAN :
           IF earlier /\ patch = "v6"
           THEN /\ lastActivationReport =
                       ActivationReport(RetrieveQuery({SourceA.id}), <<SourceA>>,
                                        [passes |-> 1, stabilized |-> TRUE])
                /\ lastAdversarialRetrieval =
                       AdversarialRetrievalOf(RetrieveQuery({SourceA.id}),
                                              MAX_ADVERSARIAL_RETRIEVAL_PASSES, <<>>)
           ELSE /\ lastActivationReport = NoReport
                /\ lastAdversarialRetrieval = NoAdversarialRetrieval
    /\ IdleRetrieve /\ NoFn /\ IdleSynthesize

NextSynth ==
    \/ \E q \in Queries, rc \in RelevantLists, sr \in StatsReports, rt \in BOOLEAN :
           patchedSynthesize(q, rc, sr, rt)
    \/ \E gaps \in GapCounts : ModelBuilt(gaps)
    \/ \E oc \in GapOutcomes : GapRetrieved(oc)
    \/ \E oc \in DraftOutcomes : DraftSettled(oc)
    \/ \E oc \in RepairOutcomes : RepairSettled(oc)

SpecSynth == InitSynth /\ [][NextSynth]_vars



(***************************************************************************)
(* Properties of the synthesizer.                                          *)
(***************************************************************************)
SynthReturned == spc = "returned" /\ meta # NoMeta

SingleDocumentVerdict(v) ==
    v.requiredDocs = 1 /\ CrossSourceShortfall \notin Range(v.reasons)

\* C11: when the report says the corpus holds exactly one document, every
\* completeness verdict has requiredDocs = 1 and no cross-source-shortfall
\* reason, whatever the query, the sources and the mental model.
C11_SingleDocumentCorpus ==
    report.totalDocuments = 1 =>
        /\ preCompleteness # NoVerdict => SingleDocumentVerdict(preCompleteness)
        /\ meta # NoMeta => SingleDocumentVerdict(meta.evidenceCompleteness)

\* a decision query over a one-document corpus, answered from that document
C11_Witness ==
    /\ SynthReturned
    /\ report.totalDocuments = 1
    /\ call.profile.decisionMode
    /\ meta.evidenceCompleteness.docCount = 1
    /\ GapCount(model) >= MODEL_GAP_THRESHOLD

GateEvaluations == Cardinality({i \in 1..Len(repairLog) : repairLog[i].outcome = "text"})

C14_RepairFailureRecovered ==
    \A i \in 1..Len(repairLog) : repairLog[i].outcome = "threw" => spc # "threw"

\* C15: when the final completeness verdict of a non-diagnostic call has
\* needsMoreEvidence, the response returned is the missing-evidence response.
C15_MissingEvidenceReturned ==
    SynthReturned /\ ~DiagnosticMode /\ meta.evidenceCompleteness.needsMoreEvidence
        => response.kind = "missing-evidence"

\* C16: when the completeness verdict the model-refinement loop returns has
\* needsMoreEvidence, no generation call and no repair call is made.
C16_NoGenerationWhenIncomplete ==
    spc \notin {"idle", "model", "gaps"} /\ preCompleteness.needsMoreEvidence
        => generateCalls = 0 /\ repairLog = <<>>

\* C17: in every result synthesize returns, cognitiveDepthGate is the last
\* gate evaluation: passed only if that evaluation found no reason, and not
\* passed with a non-empty list of reasons when it found some.
C17_GateVerdictReported ==
    SynthReturned =>
        LET last == gateLog[Len(gateLog)].result
            gate == meta.cognitiveDepthGate
        IN /\ gate.reasons = last.reasons
           /\ gate.passed <=> last.reasons = <<>>

\* a result returned with a failed gate after both rewrites
C17_Witness ==
    /\ SynthReturned
    /\ ~meta.cognitiveDepthGate.passed
    /\ meta.cognitiveDepthGate.reasons # <<>>
    /\ meta.cognitiveDepthRepairs = MAX_ANALYSIS_REWRITE_ATTEMPTS



CorpusSparse ==
    << [filename |-> "A", chunks |-> << Chunk(1, "A", 0, <<"x">>, <<>>, TRUE),
                                        Chunk(2, "A", 1, <<>>, <<>>, FALSE),
                                        Chunk(3, "A", 2, <<"y">>, <<>>, FALSE),
                                        Chunk(4, "A", 3, <<"x">>, <<>>, TRUE),
                                        Chunk(5, "A", 4, <<>>, <<>>, FALSE) >>],
       [filename |-> "E", chunks |-> <<>>],
       [filename |-> "B", chunks |-> << Chunk(6, "B", 0, <<"y">>, <<>>, FALSE) >>] >>

AnchorCorpora == {CorpusDeep, CorpusWide, CorpusLong, CorpusSparse}

AnchorRelevanceSets == {r \in SUBSET Ids(allChunks) : Cardinality(r) <= MaxAnchorRelevant}

ApplyAnchors(rel, broad) ==
    /\ fnName = "none"
    /\ fnName' = "getDocumentAnchors"
    /\ fnArgs' = [rel |-> rel, broad |-> broad]
    /\ fnResult' = getDocumentAnchors(rel, broad)
    /\ UNCHANGED <<corpusVars, retrieveVars, lastActivationReport, lastAdversarialRetrieval, synthVars, bootVars>>

InitAnchors ==
    /\ patch = "v3"
    /\ \E docs \in AnchorCorpora : CorpusLoaded(docs)
    /\ IdleRetrieve /\ NoFn /\ IdleSynthesize

NextAnchors ==
    \E rel \in AnchorRelevanceSets, broad \in BOOLEAN : ApplyAnchors(rel, broad)

SpecAnchors == InitAnchors /\ [][NextAnchors]_vars

ChunkIdsOf(doc) == Ids(doc.chunks)

\* C18: the list getDocumentAnchors returns holds no chunk id twice and, for
\* every document of the corpus that has a chunk, at least one of its chunks,
\* whatever scores the query gives the chunks (all zero included).
C18_AnchorsCoverEveryDocument ==
    fnName = "getDocumentAnchors" =>
        /\ NoDuplicateIds(fnResult)
        /\ \A d \in 1..Len(documents) :
               documents[d].chunks # <<>> =>
                   \E i \in 1..Len(fnResult) : fnResult[i].id \in ChunkIdsOf(documents[d])

\* every score is zero, one document has no chunk and one has more chunks
\* than a document contributes
C18_Witness ==
    /\ fnName = "getDocumentAnchors"
    /\ fnArgs.rel = {}
    /\ \E d \in 1..Len(documents) : documents[d].chunks = <<>>
    /\ \E d \in 1..Len(documents) :
           Cardinality(ChunkIdsOf(documents[d]) \cap Ids(fnResult)) = 3
           /\ Len(documents[d].chunks) > 3



(***************************************************************************)
(* updateCorpus while a retrieve call is suspended.  patchedUpdateCorpus   *)
(* is synchronous: the host's updateCorpus replaces documents and          *)
(* allChunks and buildSuperConceptGraph rebuilds the graph, the index and  *)
(* the cache in the same turn.  A suspended patchedRetrieve holds no       *)
(* snapshot: after each await it reads this.allChunks, this.documents and  *)
(* the graph again.                                                        *)
(***************************************************************************)
patchedUpdateCorpus(docs) ==
    /\ documents' = docs
    /\ allChunks' = AllChunksOf(docs)
    /\ LET built == buildSuperConceptGraph(allChunks')
       IN /\ superConceptGraph' = built.graph
          /\ conceptToChunkIds' = built.c2c
          /\ chunkConceptsCache' = built.cache
          /\ chunkToDocMap' = built.docs
    /\ generation' = generation + 1
    /\ UNCHANGED <<patch, retrieveVars, lastActivationReport, lastAdversarialRetrieval, fnVars, synthVars, bootVars>>

RebuildCorpora == {CorpusDeep, CorpusWide}

InitRebuild ==
    /\ patch = "v3"
    /\ \E docs \in RebuildCorpora : CorpusLoaded(docs)
    /\ IdleRetrieve /\ NoFn /\ IdleSynthesize

NextRebuild ==
    \/ \E topK \in {NoTopK, 1}, rel \in RelevanceSets : patchedRetrieve(topK, rel)
    \/ \E oc \in Outcomes(HitStart, relQ) : BaseSettled(oc)
    \/ \E oc \in Outcomes(HitStart, relQ) : ProbeSettled(oc)
    \/ \E docs \in RebuildCorpora : generation < MaxRebuilds /\ patchedUpdateCorpus(docs)

SpecRebuild == InitRebuild /\ [][NextRebuild]_vars

\* C20: a retrieve call that was suspended at an await while updateCorpus ran
\* reads allChunks, documents, the graph and the index of one corpus
\* generation only.
C20_SingleGeneration == Cardinality(readGens) <= 1



(***************************************************************************)
(* Failed probes and the stability test of the refinement loop.            *)
(***************************************************************************)
\* C22: a probe whose base retrieval fails is skipped: its pass adds no chunk
\* to the accumulated set, and it does not end the loop while the probe list
\* holds a further probe and the pass budget allows one.  Stated for a corpus
\* whose anchors hold every chunk, whatever the query.
C22_FailedProbeSkipped ==
    documents = CorpusWide =>
        \A i \in 1..Len(passLog) :
            passLog[i].threw =>
                /\ passLog[i].chunkDelta = 0
                /\ (refinement # NoRefinement /\ i = Len(passLog) /\ i < MinProbes)
                       => BudgetSpent(refinement.passes)

\* a long document whose passages hold three chunks on one concept each: a
\* probe that hits a passage adds exactly three chunks and no document
CorpusPassages ==
    << [filename |-> "A", chunks |-> << Chunk(1, "A", 0, <<>>, <<>>, FALSE),
                                        Chunk(2, "A", 1, <<>>, <<>>, FALSE),
                                        Chunk(3, "A", 2, <<>>, <<>>, FALSE),
                                        Chunk(4, "A", 3, <<"p">>, <<>>, TRUE),
                                        Chunk(5, "A", 4, <<"p">>, <<>>, FALSE),
                                        Chunk(6, "A", 5, <<"p">>, <<>>, FALSE),
                                        Chunk(7, "A", 6, <<"q">>, <<>>, TRUE),
                                        Chunk(8, "A", 7, <<"q">>, <<>>, FALSE),
                                        Chunk(9, "A", 8, <<"q">>, <<>>, FALSE),
                                        Chunk(10, "A", 9, <<"r">>, <<>>, TRUE),
                                        Chunk(11, "A", 10, <<"r">>, <<>>, FALSE) >>],
       [filename |-> "B", chunks |-> << Chunk(12, "B", 0, <<"s", "t">>, <<>>, FALSE) >>] >>

InitStable ==
    patch = "v3" /\ CorpusLoaded(CorpusPassages) /\ IdleRetrieve /\ NoFn /\ IdleSynthesize

NextStable ==
    \/ \E topK \in {MaxTopK, NoTopK}, rel \in RelevanceSets : patchedRetrieve(topK, rel)
    \/ \E oc \in Outcomes(HitStart, relQ) : BaseSettled(oc)
    \/ \E oc \in Outcomes(HitStart, relQ) : ProbeSettled(oc)

SpecStable == InitStable /\ [][NextStable]_vars

\* C23: a pass counts as stable only if it adds no document and strictly fewer
\* than RETRIEVAL_STABLE_CHUNK_DELTA chunks.
C23_StableBelowThreshold ==
    \A i \in 1..Len(passLog) :
        passLog[i].stableHits >= 1 =>
            /\ passLog[i].docsAfter <= passLog[i].docsBefore
            /\ passLog[i].chunkDelta < RETRIEVAL_STABLE_CHUNK_DELTA


(***************************************************************************)
(* updateCorpus called any number of times, each time with another corpus. *)
(* The corpora are drawn from a pool in which a chunk id belongs to        *)
(* document A in one corpus and to document B in another, and carries      *)
(* another concept list (with repeated concepts) each time.                *)
(***************************************************************************)
MaxConceptOccurrences == 2   \* concept occurrences in the text of the first chunk
MaxUpdates == 2              \* calls of updateCorpus in a behaviour

Concepts == {"x", "y", "z"}
ConceptTexts == UNION {[1..n -> Concepts] : n \in 0..MaxConceptOccurrences}

\* a document A whose first chunk has the id and the concepts given, and a
\* second chunk in document A, in a document B, or nowhere
PoolCorpus(id, concepts, second) ==
    LET first == Chunk(id, "A", 0, concepts, <<>>, TRUE)
    IN IF second = "A"
       THEN << [filename |-> "A",
                chunks |-> <<first, Chunk(id + 1, "A", 1, <<"y", "z", "y", "x">>, <<>>, FALSE)>>] >>
       ELSE IF second = "B"
       THEN << [filename |-> "A", chunks |-> <<first>>],
               [filename |-> "B",
                chunks |-> << Chunk(id + 1, "B", 0, <<"z", "x">>, <<>>, FALSE) >>] >>
       ELSE << [filename |-> "A", chunks |-> <<first>>] >>

CorpusPool ==
    {PoolCorpus(id, concepts, second) :
        id \in {1, 2}, concepts \in ConceptTexts, second \in {"A", "B", "none"}}

InitCorpus ==
    /\ patch = "v3"
    /\ \E docs \in CorpusPool : CorpusLoaded(docs)
    /\ IdleRetrieve /\ NoFn /\ IdleSynthesize

NextCorpus == \E docs \in CorpusPool : generation < MaxUpdates /\ patchedUpdateCorpus(docs)

SpecCorpus == InitCorpus /\ [][NextCorpus]_vars

\* Map.keys() as a set
Keys(m) == {m[i].k : i \in 1..Len(m)}

\* graph.get(a)?.get(b) || 0
Weight(a, b) == MapGet(MapGet(superConceptGraph, a, <<>>), b, 0)
HasEdge(a, b) == MapHas(superConceptGraph, a) /\ MapHas(MapGet(superConceptGraph, a, <<>>), b)
GraphConcepts ==
    Keys(superConceptGraph)
    \cup UNION {Keys(superConceptGraph[i].v) : i \in 1..Len(superConceptGraph)}

\* C24: after every buildSuperConceptGraph the concept graph is symmetric (b
\* is a neighbour of a exactly when a is a neighbour of b, with the same
\* weight) and no concept is its own neighbour.
C24_GraphSymmetric ==
    \A a \in GraphConcepts, b \in GraphConcepts :
        /\ HasEdge(a, b) <=> HasEdge(b, a)
        /\ Weight(a, b) = Weight(b, a)
        /\ ~HasEdge(a, a)

\* the graph was rebuilt by updateCorpus from chunks that repeat a concept and
\* holds edges of two weights
C24_Witness ==
    /\ generation >= 1
    /\ \E i \in 1..Len(allChunks) :
           Len(allChunks[i].text.concepts) > Len(extractRichConcepts(allChunks[i].text))
    /\ \E a \in GraphConcepts, b \in GraphConcepts, c \in GraphConcepts :
           HasEdge(a, b) /\ HasEdge(a, c) /\ Weight(a, b) # Weight(a, c)

ChunkWithId(id) == allChunks[CHOOSE i \in 1..Len(allChunks) : allChunks[i].id = id]

\* C25: after every updateCorpus the graph, the concept-to-chunk index, the
\* per-chunk concept cache and the chunk-to-document map are derived from the
\* current corpus only: the keys of the cache and of the document map are the
\* current chunk ids, their values are those of the current chunks, a chunk id
\* is in the index entry of a concept exactly when the concept is in the
\* chunk's cached list, and every edge joins two concepts of one current chunk.
C25_DerivedFromCurrentCorpus ==
    LET ids == Ids(allChunks)
        cached(id) == MapGet(chunkConceptsCache, id, <<>>)
    IN /\ Keys(chunkConceptsCache) = ids
       /\ Keys(chunkToDocMap) = ids
       /\ \A id \in ids :
              /\ MapGet(chunkToDocMap, id, "") = ChunkWithId(id).filename
              /\ cached(id) = Take(extractRichConcepts(ChunkWithId(id).text), MaxConceptsPerChunk)
       /\ \A c \in Keys(conceptToChunkIds) \cup UNION {Range(cached(id)) : id \in ids} :
              Range(MapGet(conceptToChunkIds, c, <<>>)) = {id \in ids : c \in Range(cached(id))}
       /\ \A a \in GraphConcepts, b \in GraphConcepts :
              HasEdge(a, b) => \E id \in ids : {a, b} \subseteq Range(cached(id))

\* the last updateCorpus of a sequence loaded a corpus of one document whose
\* second chunk has an id that other corpora of the pool give to a first chunk
\* or to a chunk of document B, and no chunk of another corpus is left
C25_Witness ==
    /\ generation = MaxUpdates
    /\ Len(documents) = 1 /\ Ids(allChunks) = {1, 2}
    /\ MapGet(chunkToDocMap, 2, "") = "A"
    /\ MapGet(chunkConceptsCache, 2, <<>>) = <<"y", "z", "x">>
    /\ MapGet(chunkConceptsCache, 1, <<>>) = <<>>
    /\ ~MapHas(chunkToDocMap, 3)


(***************************************************************************)
(* The selection at the end of superBrainRunAdversarialRetrieval, applied  *)
(* once to a list of candidates as the loop aggregates them: distinct ids, *)
(* a score and a contradiction signal each.  The short lists take every    *)
(* combination of three signals and two scores; the long lists go past     *)
(* MAX_ADVERSARIAL_CHUNKS, with a signal on every k-th candidate or on     *)
(* none.                                                                   *)
(***************************************************************************)
MaxShortList == 3      \* length of the candidate lists that are enumerated in full
MaxCandidates == 17    \* length of the longest candidate list

Candidate(id, score, signal) ==
    [id |-> id, filename |-> "A", score |-> score, bridgeConcept |-> NoConcept,
     adversarialSignal |-> signal]

HalfUnit == ScoreUnit \div 2

ShortLists ==
    UNION {{Array([i \in 1..n |-> Candidate(i, f[i][1], f[i][2])]) :
               f \in [1..n -> {0, ScoreUnit} \X {0, HalfUnit, 2 * HalfUnit}]} :
           n \in 0..MaxShortList}

\* n candidates, a signal on those whose position is r modulo k (on none if
\* k = 0), scores and signals that vary with the position
LongList(n, k, r, phase) ==
    Array([i \in 1..n |->
        Candidate(i, ((i * 7 + phase) % 5) * (ScoreUnit \div 5),
                  IF k # 0 /\ i % k = r THEN (((i * 5) % 4) + 1) * HalfUnit ELSE 0)])

LongLists ==
    {LongList(n, k, r, phase) :
        n \in (MaxShortList + 1)..MaxCandidates, k \in 0..3, r \in 0..2, phase \in 0..1}

ApplySelect(agg) ==
    /\ fnName = "none"
    /\ fnName' = "select"
    /\ fnArgs' = agg
    /\ fnResult' = AdvSelect(agg)
    /\ UNCHANGED <<corpusVars, retrieveVars, lastActivationReport, lastAdversarialRetrieval, synthVars, bootVars>>

InitSelect ==
    patch = "v6" /\ CorpusLoaded(CorpusWide) /\ IdleRetrieve /\ NoFn /\ IdleSynthesize

NextSelect == \E agg \in ShortLists \cup LongLists : ApplySelect(agg)

SpecSelect == InitSelect /\ [][NextSelect]_vars

HasSignal(list) == \E i \in 1..Len(list) : list[i].adversarialSignal > 0

\* C26: if the adversarial pass gathered a candidate, it returns a chunk; if a
\* candidate has a contradiction signal above zero, every returned chunk has
\* one and the chunks are in order of non-increasing signal; only when no
\* candidate has a signal does it return candidates without one, and then
\* the best-scored ones, in order of non-increasing score.
C26_SignalledFirst ==
    fnName = "select" =>
        LET agg == fnArgs
            res == fnResult
        IN /\ Ids(res) \subseteq Ids(agg)
           /\ Len(agg) > 0 => Len(res) > 0
           /\ HasSignal(agg) =>
                  /\ \A i \in 1..Len(res) : res[i].adversarialSignal > 0
                  /\ \A i \in 1..(Len(res) - 1) :
                         res[i].adversarialSignal >= res[i + 1].adversarialSignal
           /\ ~HasSignal(agg) =>
                  /\ \A i \in 1..(Len(res) - 1) : res[i].score >= res[i + 1].score
                  /\ \A i \in 1..Len(agg) :
                         agg[i].id \notin Ids(res) =>
                             \A j \in 1..Len(res) : agg[i].score <= res[j].score

\* the selection ran on candidates of which some, but not the best-scored
\* one, have a signal, and returned several chunks of different signals
C26_Witness ==
    /\ fnName = "select"
    /\ HasSignal(fnArgs)
    /\ \E i, j \in 1..Len(fnArgs) :
           /\ fnArgs[i].adversarialSignal = 0 /\ fnArgs[j].adversarialSignal > 0
           /\ fnArgs[i].score > fnArgs[j].score
    /\ Len(fnResult) >= 2
    /\ fnResult[1].adversarialSignal > fnResult[Len(fnResult)].adversarialSignal


(***************************************************************************)
(* The adversarial pass under v6: a retrieve call over a corpus with       *)
(* contradiction markers, whose adversarial probe retrievals return or     *)
(* throw, and the selection applied once to a candidate list longer than   *)
(* MAX_ADVERSARIAL_CHUNKS.                                                 *)
(***************************************************************************)
InitAdversarial ==
    patch = "v6" /\ CorpusLoaded(CorpusDeep) /\ IdleRetrieve /\ NoFn /\ IdleSynthesize

NextAdversarial ==
    \/ \E rel \in RelevanceSets : fnName = "none" /\ patchedRetrieve(NoTopK, rel)
    \/ \E oc \in Outcomes(FirstStart, relQ) : BaseSettled(oc)
    \/ \E oc \in Outcomes(FirstStart, relQ) : ProbeSettled(oc)
    \/ \E oc \in Outcomes(FirstStart, relQ) : AdvSettled(oc)
    \/ \E agg \in LongLists : rpc \in {"idle", "returned"} /\ ApplySelect(agg)

SpecAdversarial == InitAdversarial /\ [][NextAdversarial]_vars

AdversarialCaps(selected) ==
    /\ Len(selected) <= MAX_ADVERSARIAL_CHUNKS
    /\ ~HasSignal(selected) => Len(selected) <= 8
    /\ NoDuplicateIds(selected)

\* C27: the adversarial pass makes at most MAX_ADVERSARIAL_RETRIEVAL_PASSES
\* probe retrievals, whether they return or throw and however many probes
\* were generated; it returns at most MAX_ADVERSARIAL_CHUNKS chunks, at most
\* 8 when no candidate has a contradiction signal, and no chunk id twice.
C27_AdversarialBounded ==
    /\ advPasses <= MAX_ADVERSARIAL_RETRIEVAL_PASSES
    /\ Len(advLog) <= MAX_ADVERSARIAL_RETRIEVAL_PASSES
    /\ Returned => AdversarialCaps(adversarialChunks)
    /\ fnName = "select" => AdversarialCaps(fnResult)

\* a call returned adversarial chunks after three probe retrievals of which
\* one threw, and the selection cut seventeen candidates with a signal down
\* to MAX_ADVERSARIAL_CHUNKS
C27_Witness ==
    /\ Returned
    /\ Len(advLog) = MAX_ADVERSARIAL_RETRIEVAL_PASSES
    /\ \E i \in 1..Len(advLog) : advLog[i]
    /\ Len(adversarialChunks) >= 1
    /\ fnName = "select"
    /\ Cardinality({i \in 1..Len(fnArgs) : fnArgs[i].adversarialSignal > 0}) > MAX_ADVERSARIAL_CHUNKS
    /\ Len(fnResult) = MAX_ADVERSARIAL_CHUNKS


(***************************************************************************)
(* superBrainAssessEvidenceCompleteness applied once, under both           *)
(* revisions, to every query class, to source lists over one to three      *)
(* documents, to gap counts around MODEL_GAP_THRESHOLD and to activation   *)
(* reports of corpora of up to MaxCorpusDocs documents (and of a corpus    *)
(* of 250 documents) with every coverage up to the floor, and full         *)
(* coverage.                                                               *)
(***************************************************************************)
MaxCorpusDocs == 7     \* largest totalDocuments of the small activation reports
ACTIVATION_COVERAGE_FLOOR == 22

SourceLists ==
    {<<>>, <<SourceA>>, <<SourceA, SourceA2>>, <<SourceA, SourceB>>,
     <<SourceA, SourceA2, SourceB, SourceC>>}

AssessGapCounts == {0, MODEL_GAP_THRESHOLD - 1, MODEL_GAP_THRESHOLD, MODEL_GAP_THRESHOLD + 1}

\* totalDocuments 0 stands for a report without the field
AssessReports ==
    {SynthReport(total, coverage, 0) :
        total \in (0..MaxCorpusDocs) \cup {250},
        coverage \in (0..ACTIVATION_COVERAGE_FLOOR) \cup {100}}

ApplyAssess(query, srcs, gaps, activationReport) ==
    /\ fnName = "none"
    /\ fnName' = "assess"
    /\ fnArgs' = [query |-> query, sources |-> srcs, gaps |-> gaps,
                  report |-> activationReport]
    /\ fnResult' = superBrainAssessEvidenceCompleteness(
                       query, srcs, [gaps |-> gaps], activationReport,
                       patchedBuildInstructionProfile(query))
    /\ UNCHANGED <<corpusVars, retrieveVars, lastActivationReport, lastAdversarialRetrieval, synthVars, bootVars>>

InitAssess ==
    /\ patch \in {"v3", "v6"}
    /\ CorpusLoaded(CorpusWide) /\ IdleRetrieve /\ NoFn /\ IdleSynthesize

NextAssess ==
    \E query \in Queries, srcs \in SourceLists, gaps \in AssessGapCounts,
       activationReport \in AssessReports :
        ApplyAssess(query, srcs, gaps, activationReport)

SpecAssess == InitAssess /\ [][NextAssess]_vars

Assessed == fnName = "assess"
AssessedBroad ==
    BroadOrDecision(fnArgs.query, patchedBuildInstructionProfile(fnArgs.query))

\* the four triggers, read from the arguments and the counts of the verdict
ZeroSources == Len(fnArgs.sources) = 0
TooFewDocuments ==
    fnResult.requiredDocs > 1 /\ fnResult.docCount < fnResult.requiredDocs
LowCoverage ==
    /\ AssessedBroad /\ fnResult.totalDocs >= 5
    /\ fnArgs.report.activationCoveragePct > 0
    /\ fnArgs.report.activationCoveragePct < ACTIVATION_COVERAGE_FLOOR
GapsWithFewDocuments ==
    /\ fnArgs.gaps >= MODEL_GAP_THRESHOLD
    /\ fnResult.docCount < Max(2, fnResult.requiredDocs)

C29_EveryCoverageBelowFloor ==
    (/\ Assessed /\ AssessedBroad
     /\ fnResult.totalDocs >= 5
     /\ fnArgs.report.activationCoveragePct < ACTIVATION_COVERAGE_FLOOR)
    => /\ fnResult.needsMoreEvidence
       /\ LowActivation \in Range(fnResult.reasons)


\* C30: when the sources of the answer cover every document of a non-empty
\* corpus (docCount = totalDocs), the final verdict holds neither the
\* cross-source reason nor the unresolved-gaps reason, and patchedSynthesize
\* does not replace the answer by the missing-evidence response, whatever
\* the size of the corpus, the gap count and the query.
C30_FullCoverageSuffices ==
    (/\ spc = "returned" /\ meta # NoMeta
     /\ meta.evidenceCompleteness.totalDocs >= 1
     /\ meta.evidenceCompleteness.docCount = meta.evidenceCompleteness.totalDocs)
    => /\ CrossSourceShortfall \notin Range(meta.evidenceCompleteness.reasons)
       /\ UnresolvedGaps \notin Range(meta.evidenceCompleteness.reasons)
       /\ response.kind # "missing-evidence"


(***************************************************************************)
(* Two queries on one retriever, version 6: the caller retrieves for the   *)
(* first query and synthesizes from the result; while the synthesizer is   *)
(* at work the second query's retrieve call runs.                          *)
(***************************************************************************)
\* one document, two chunks that the base retriever can start from
CorpusSingle ==
    << [filename |-> "A", chunks |-> << Chunk(1, "A", 0, <<"x", "y">>, <<>>, TRUE),
                                        Chunk(2, "A", 1, <<>>, <<>>, FALSE),
                                        Chunk(3, "A", 2, <<"y", "x">>, <<>>, TRUE) >>] >>

FirstQueryRelevant == {1}
SecondQueryRelevant == {3}

\* the sources of a retrieval result
SourcesOf(items) == [i \in 1..Len(items) |-> Source(items[i].id, items[i].filename)]

\* the caller's await of retrieve resumes with the result
ResultTaken ==
    /\ rpc = "returned"
    /\ rpc' = "idle"
    /\ UNCHANGED <<corpusVars, targetTopK, relQ, anchors, merged, probeIdx, passes,
                   stableHits, prevChunkCount, prevDocCount, refinement, advPasses,
                   aggregated, adversarialChunks, out, outBeforeAdversarial, baseCalls, baseLog, passLog,
                   advLog, readGens>>
    /\ UNCHANGED <<lastActivationReport, lastAdversarialRetrieval, fnVars, synthVars, bootVars>>

InterleaveDrafts ==
    {[kind |-> "throw", appended |-> <<>>],
     [kind |-> "result", response |-> FullBrief, sources |-> loopChunks,
      appended |-> NewEntries("call", TURN_ENTRIES)],
     [kind |-> "result", response |-> Summary, sources |-> loopChunks,
      appended |-> NewEntries("call", TURN_ENTRIES)]}

InitInterleave ==
    /\ patch = "v6"
    /\ CorpusLoaded(CorpusSingle)
    /\ IdleRetrieve /\ NoFn /\ IdleSynthesize

NextInterleave ==
    \/ /\ spc = "idle" /\ lastAdversarialRetrieval = NoAdversarialRetrieval
       /\ patchedRetrieve(NoTopK, FirstQueryRelevant)
    \/ /\ spc # "idle"
       /\ patchedRetrieve(NoTopK, SecondQueryRelevant)
    \/ \E oc \in Outcomes(FirstStart, relQ) : BaseSettled(oc)
    \/ \E oc \in Outcomes(FirstStart, relQ) : ProbeSettled(oc)
    \/ \E oc \in Outcomes(FirstStart, relQ) : AdvSettled(oc)
    \/ ResultTaken
    \/ /\ rpc = "idle"
       /\ lastAdversarialRetrieval # NoAdversarialRetrieval
       /\ patchedSynthesize(BroadQuery, SourcesOf(out), NoReport, TRUE)
    \/ \E gaps \in GapCounts : ModelBuilt(gaps)
    \/ \E oc \in {[threw |-> TRUE, chunks |-> <<>>],
                  [threw |-> FALSE, chunks |-> <<Source(2, "A"), Source(3, "A")>>]} :
           GapRetrieved(oc)
    \/ \E oc \in InterleaveDrafts : DraftSettled(oc)
    \/ \E oc \in {EmptyRepair, FullBrief} : RepairSettled(oc)

SpecInterleave == InitInterleave /\ [][NextInterleave]_vars

\* C21: the adversarial evidence that patchedSynthesize uses for the first
\* query is never the one written by the retrieve call of the second query.
C21_NeverOtherQuery ==
    adversarialRetrieval # NoAdversarialRetrieval =>
        adversarialRetrieval.query # RetrieveQuery(SecondQueryRelevant)


(***************************************************************************)
(* The adversarial chunks at the end of patchedRetrieve.                   *)
(***************************************************************************)
\* C31: putting the adversarial chunks into the final list never lowers the
\* number of distinct documents in it.
C31_InjectionKeepsDocuments ==
    Returned => DocCount(out) >= DocCount(Take(outBeforeAdversarial, targetTopK))


(***************************************************************************)
(* The activation report of a synthesize call.                             *)
(***************************************************************************)
\* C32: the activation report that patchedSynthesize uses after the refinement
\* loop is not one written by a retrieve call that the loop made for a gap
\* query of the same call.
C32_ReportOfUserQuery ==
    (call # NoCall /\ "query" \in DOMAIN report) =>
        report.query # GapQuery(call.query)


(***************************************************************************)
(* The bounds of superBrainRunModelRefinementLoop.                         *)
(***************************************************************************)
IsPrefix(a, b) == Len(a) <= Len(b) /\ \A i \in 1..Len(a) : b[i] = a[i]

InRefinementLoop == spc \in {"model", "gaps"}

\* C33: the refinement loop builds the model at most MAX_MODEL_REFINEMENT_PASSES
\* times (cycle counts the builds that are done), issues at most
\* MAX_GAP_REFINEMENT_QUERIES retrieve calls in a cycle, and its chunk list
\* always starts with the deduplicated input chunks in their order.
C33_LoopBounded ==
    /\ InRefinementLoop => cycle < MAX_MODEL_REFINEMENT_PASSES
    /\ gapCalls <= MAX_GAP_REFINEMENT_QUERIES
    /\ call # NoCall => IsPrefix(uniqBy(call.relevantChunks), loopChunks)

\* the third cycle, every retrieve call of it rejected so far and the fourth in
\* flight, after the earlier cycles added chunks
C33_Witness ==
    /\ spc = "gaps"
    /\ cycle = MAX_MODEL_REFINEMENT_PASSES - 1
    /\ gapCalls = MAX_GAP_REFINEMENT_QUERIES
    /\ expanded = <<>>
    /\ Len(loopChunks) > Len(call.relevantChunks) + 2


(***************************************************************************)
(* The conversation history around the original synthesize: one call, and  *)
(* a second call on the same synthesizer that starts while the first is    *)
(* suspended in the original synthesize.                                   *)
(***************************************************************************)
MaxAppended == 3
HistoryLengths == {0, 1, 2, CONTINUITY_ENTRIES, CONTINUITY_ENTRIES + 1,
                   HISTORY_CAP - 2, HISTORY_CAP - 1, HISTORY_CAP}

\* what the host's synthesize may do to the history before it settles: it
\* appends some entries and resolves, or appends some and rejects
HistoryDrafts ==
    UNION {{[kind |-> "throw", appended |-> NewEntries("call", n)],
            [kind |-> "result", response |-> FullBrief, sources |-> loopChunks,
             appended |-> NewEntries("call", n)],
            [kind |-> "result", response |-> Summary, sources |-> loopChunks,
             appended |-> NewEntries("call", n)]} : n \in 0..MaxAppended}

\* a second call of patchedSynthesize reaches the original synthesize while the
\* first is suspended in it: the same snapshot and continuity window
OtherSynthesizeCalled ==
    /\ spc = "draft"
    /\ otherCall.at = "idle"
    /\ otherCall' = [at |-> "draft", historySnapshot |-> conversationHistory,
                     appended |-> <<>>]
    /\ conversationHistory' = TakeLast(conversationHistory, CONTINUITY_ENTRIES)
    /\ UNCHANGED <<spc, call, report, adversarialRetrieval, loopChunks, cycle, expanded,
                   gapCalls, historySnapshot, appended, modelStableHits,
                   previousGapCount, model, preCompleteness, response, sources,
                   malformedCitationSignals, depthGate, depthRepairAttempts, meta,
                   generateCalls, repairLog, gateLog, thrownBy>>
    /\ UNCHANGED <<corpusVars, retrieveVars, lastActivationReport, lastAdversarialRetrieval, fnVars, bootVars>>

\* the original synthesize of the second call settled: latestTurn and the finally
OtherDraftSettled(threw, n) ==
    /\ otherCall.at = "draft"
    /\ otherCall' = [at |-> IF threw THEN "threw" ELSE "returned",
                     historySnapshot |-> otherCall.historySnapshot,
                     appended |-> NewEntries("other", n)]
    /\ conversationHistory' =
           HistoryRestored(otherCall.historySnapshot,
                           IF threw THEN <<>>
                           ELSE TakeLast(conversationHistory \o NewEntries("other", n),
                                         TURN_ENTRIES))
    /\ UNCHANGED <<spc, call, report, adversarialRetrieval, loopChunks, cycle, expanded,
                   gapCalls, historySnapshot, appended, modelStableHits,
                   previousGapCount, model, preCompleteness, response, sources,
                   malformedCitationSignals, depthGate, depthRepairAttempts, meta,
                   generateCalls, repairLog, gateLog, thrownBy>>
    /\ UNCHANGED <<corpusVars, retrieveVars, lastActivationReport, lastAdversarialRetrieval, fnVars, bootVars>>

InitHistory ==
    /\ patch \in {"v3", "v6"}
    /\ documents = CorpusWide
    /\ allChunks = AllChunksOf(documents)
    /\ LET built == buildSuperConceptGraph(allChunks)
       IN /\ superConceptGraph = built.graph
          /\ conceptToChunkIds = built.c2c
          /\ chunkConceptsCache = built.cache
          /\ chunkToDocMap = built.docs
    /\ generation = 0
    /\ lastActivationReport = NoReport
    /\ lastAdversarialRetrieval = NoAdversarialRetrieval
    /\ IdleRetrieve /\ NoFn /\ IdleCall /\ PatchApplied
    /\ conversationHistory \in {NewEntries("old", n) : n \in HistoryLengths}
    /\ otherCall = NoOtherCall

NextHistory ==
    \/ patchedSynthesize(PlainQuery, <<SourceA, SourceB>>, NoReport, FALSE)
    \/ ModelBuilt(0)
    \/ \E oc \in HistoryDrafts : DraftSettled(oc)
    \/ \E oc \in RepairOutcomes : RepairSettled(oc)
    \/ OtherSynthesizeCalled
    \/ \E threw \in BOOLEAN, n \in 0..MaxAppended : OtherDraftSettled(threw, n)

SpecHistory == InitHistory /\ [][NextHistory]_vars

SynthesizeFinished == spc \in {"returned", "threw"}

\* C34: after synthesize has returned or thrown (and no other call touched the
\* history meanwhile), conversationHistory is the history from before the call
\* followed by exactly the entries the original synthesize appended during the
\* call, cut to the most recent HISTORY_CAP entries.
C34_HistoryPlusAppended ==
    (SynthesizeFinished /\ otherCall.at = "idle") =>
        conversationHistory = TakeLast(historySnapshot \o appended, HISTORY_CAP)

\* C35: after two overlapping calls that each appended one turn have both
\* returned, conversationHistory holds the turns of both calls and every entry
\* from before the first call that the cap leaves room for.
C35_OverlapKeepsBoth ==
    (/\ spc = "returned"
     /\ otherCall.at = "returned"
     /\ Len(appended) = TURN_ENTRIES
     /\ Len(otherCall.appended) = TURN_ENTRIES) =>
        Range(TakeLast(historySnapshot, HISTORY_CAP - 2 * TURN_ENTRIES))
            \cup Range(appended) \cup Range(otherCall.appended)
                \subseteq Range(conversationHistory)


(***************************************************************************)
(* The gate record of the result against the text of the result.           *)
(***************************************************************************)
EvidenceRequested ==
    /\ SynthReturned
    /\ ShouldRequestMoreEvidence(meta.evidenceCompleteness, sources)

\* what the patterns of the gate find in the fixed lines of the text that
\* superBrainBuildMissingEvidenceResponse joins ("cons" matches in
\* "conclusion"); the query, the reasons and the quoted sentences are taken to
\* hold none of the causal words
MissingEvidenceMarks ==
    IF patch = "v3"
    THEN BaseMarks \cup {"hasOptionsTradeoffs"}
    ELSE BaseMarks \cup StageMarks
         \cup {"hasOptionsTradeoffs", "hasRecommendation",
               "hasExecutiveSummarySection", "hasDecisionFirst",
               "hasReasoningPathSection", "hasHumanLoopSection",
               "hasExplicitFactsSection", "hasInferredImplicationsSection"}

\* "because", "then" (twice) and "due to" in the lines version 6 adds
MissingEvidenceSignals == IF patch = "v3" THEN 0 ELSE 4

\* the response as the gate reads it: the missing-evidence response cites one
\* source per evidence line, (sources || []).slice(0, 4)
ResponseText(resp, srcs) ==
    IF resp.kind = "missing-evidence"
    THEN Answer(MissingEvidenceMarks, MissingEvidenceSignals,
                [i \in 1..Min(4, Len(srcs)) |-> srcs[i].filename], <<>>)
    ELSE resp

\* C36: in every result with a meta record, meta.superBrain.cognitiveDepthGate
\* is the evaluation of the returned response text, also when the answer was
\* replaced by the missing-evidence response.
C36_GateOfReturnedText ==
    SynthReturned =>
        meta.cognitiveDepthGate = Evaluate(ResponseText(response, sources), sources)


(***************************************************************************)
(* installPatches run any number of times, by scripts of either revision.  *)
(***************************************************************************)
MaxInstalls == 3
PatchVersions == {"v3", "v6"}

\* the host page defines a class; retrieveFromChunks is a method some hosts lack
HostDefinesClass(c, lacking) ==
    /\ c \notin hostClasses
    /\ hostClasses' = hostClasses \cup {c}
    /\ prototypes' = [m \in Methods |->
                          IF ClassOf(m) = c THEN Slot(m \notin lacking, <<>>)
                          ELSE prototypes[m]]
    /\ UNCHANGED <<bootAt, attempt, installCalls, installedVersions, methodCall>>
    /\ UNCHANGED <<corpusVars, retrieveVars, lastActivationReport, lastAdversarialRetrieval,
                   fnVars, synthVars>>

installPatches(version) ==
    /\ installCalls < MaxInstalls
    /\ prototypes' = PrototypesAfterInstall(prototypes, hostClasses, version)
    /\ installCalls' = installCalls + 1
    /\ installedVersions' = IF TargetClassesDefined(hostClasses)
                            THEN Append(installedVersions, version)
                            ELSE installedVersions
    /\ UNCHANGED <<hostClasses, bootAt, attempt, methodCall>>
    /\ UNCHANGED <<corpusVars, retrieveVars, lastActivationReport, lastAdversarialRetrieval,
                   fnVars, synthVars>>

\* a call of a method through its prototype slot: every wrapper that has an
\* original calls it, down to the host's method
CallMethod(m) ==
    /\ ClassOf(m) \in hostClasses
    /\ prototypes[m].defined
    /\ methodCall' = [method |-> m, layers |-> Len(prototypes[m].layers)]
    /\ UNCHANGED <<hostClasses, prototypes, bootAt, attempt, installCalls,
                   installedVersions>>
    /\ UNCHANGED <<corpusVars, retrieveVars, lastActivationReport, lastAdversarialRetrieval,
                   fnVars, synthVars>>

\* the page before any of its scripts ran
NoHost ==
    /\ hostClasses = {}
    /\ prototypes = [m \in Methods |-> NoSlot]
    /\ installCalls = 0
    /\ installedVersions = <<>>
    /\ methodCall = NoMethodCall

NoCorpus ==
    /\ documents = <<>> /\ allChunks = <<>>
    /\ superConceptGraph = <<>> /\ conceptToChunkIds = <<>>
    /\ chunkConceptsCache = <<>> /\ chunkToDocMap = <<>>
    /\ generation = 0
    /\ lastActivationReport = NoReport
    /\ lastAdversarialRetrieval = NoAdversarialRetrieval

InitInstall ==
    /\ patch \in PatchVersions
    /\ NoCorpus /\ NoHost
    /\ bootAt = "none" /\ attempt = 0
    /\ IdleRetrieve /\ NoFn /\ IdleCall
    /\ conversationHistory = <<>> /\ otherCall = NoOtherCall

NextInstall ==
    \/ \E c \in HostClasses, lacking \in SUBSET {"retrieveFromChunks"} :
           HostDefinesClass(c, lacking)
    \/ \E version \in PatchVersions : installPatches(version)
    \/ \E m \in Methods : CallMethod(m)

SpecInstall == InitInstall /\ [][NextInstall]_vars

OneVersionInstalled ==
    /\ installedVersions # <<>>
    /\ \A i \in 1..Len(installedVersions) : installedVersions[i] = installedVersions[1]

\* C37: after installPatches has succeeded any number of times (at least once)
\* with one PATCH_VERSION only, every method of the two target classes that the
\* host defines carries exactly one wrapper, no method carries more than one,
\* and a call through a prototype slot passes at most one wrapper.
C37_WrappedOnce ==
    OneVersionInstalled =>
        /\ \A m \in Methods : Len(prototypes[m].layers) <= 1
        /\ \A m \in RetrieverMethods \cup SynthesizerMethods :
               prototypes[m].defined => prototypes[m].layers = <<installedVersions[1]>>
        /\ methodCall.layers <= 1

\* three runs of one version, then a call of synthesize through its one wrapper
C37_Witness ==
    /\ OneVersionInstalled
    /\ Len(installedVersions) = MaxInstalls
    /\ \A m \in Methods : prototypes[m].defined => Len(prototypes[m].layers) = 1
    /\ methodCall = [method |-> "synthesize", layers |-> 1]


(***************************************************************************)
(* boot: the retry loop that installs the patch once the host's classes    *)
(* are defined, with the host loading a corpus and calling retrieve at any *)
(* time in between.  The first call, boot(), is the pending call of        *)
(* attempt 0; every later one is a 50 ms timer.                            *)
(***************************************************************************)
BOOT_RETRY_LIMIT == 120

\* a boot that goes on after a successful install
BootStopsNever(ok) == FALSE

\* if (ok) { ...; return; }
BootStops(ok) == ok

boot ==
    /\ bootAt = "timer"
    /\ prototypes' = PrototypesAfterInstall(prototypes, hostClasses, patch)
    /\ installCalls' = installCalls + 1
    /\ installedVersions' = IF TargetClassesDefined(hostClasses)
                            THEN Append(installedVersions, patch)
                            ELSE installedVersions
    /\ IF BootStops(TargetClassesDefined(hostClasses))
       THEN bootAt' = "applied" /\ UNCHANGED attempt
       ELSE IF attempt >= BOOT_RETRY_LIMIT
       THEN bootAt' = "gaveUp" /\ UNCHANGED attempt
       ELSE bootAt' = "timer" /\ attempt' = attempt + 1
    /\ UNCHANGED <<hostClasses, methodCall>>
    /\ UNCHANGED <<corpusVars, retrieveVars, lastActivationReport, lastAdversarialRetrieval,
                   fnVars, synthVars>>

\* the host's own updateCorpus: it stores the documents and their chunks
originalUpdateCorpus(docs) ==
    /\ documents' = docs
    /\ allChunks' = AllChunksOf(docs)
    /\ generation' = generation + 1
    /\ UNCHANGED <<patch, superConceptGraph, conceptToChunkIds, chunkConceptsCache,
                   chunkToDocMap>>
    /\ UNCHANGED <<retrieveVars, lastActivationReport, lastAdversarialRetrieval, fnVars,
                   synthVars, bootVars>>

\* the page calls retriever.updateCorpus(documents): whatever the slot holds
HostUpdatesCorpus(docs) ==
    /\ "CognitiveRetriever" \in hostClasses
    /\ generation < MaxUpdates
    /\ IF IsPatched("updateCorpus") THEN patchedUpdateCorpus(docs)
       ELSE originalUpdateCorpus(docs)

\* the page calls retriever.retrieve(query) after the patch wrapped it
HostRetrieves(topK, rel) ==
    /\ "CognitiveRetriever" \in hostClasses
    /\ IsPatched("retrieve")
    /\ patchedRetrieve(topK, rel)

InitBoot ==
    /\ patch \in PatchVersions
    /\ NoCorpus /\ NoHost
    /\ bootAt = "timer" /\ attempt = 0
    /\ IdleRetrieve /\ NoFn /\ IdleCall
    /\ conversationHistory = <<>> /\ otherCall = NoOtherCall

NextBoot ==
    \/ \E c \in HostClasses : HostDefinesClass(c, {})
    \/ boot
    \/ \E docs \in {CorpusSingle, CorpusWide} : HostUpdatesCorpus(docs)
    \/ HostRetrieves(2, {1})
    \/ BaseSettled([threw |-> TRUE, chunks |-> <<>>])

SpecBoot == InitBoot /\ [][NextBoot]_vars

\* a timer that was set fires
SpecBootFair == SpecBoot /\ WF_vars(boot)

BootEnded == bootAt \in {"applied", "gaveUp"}

\* C38: installPatches is attempted at most BOOT_RETRY_LIMIT + 1 times (the
\* attempts 0 to BOOT_RETRY_LIMIT); once an install succeeded or attempt
\* BOOT_RETRY_LIMIT failed, nothing more is attempted or scheduled; the loop
\* ends; and when the target classes are defined while an attempt is still
\* pending, the patch gets installed.
C38_BootBounded ==
    /\ [](installCalls <= BOOT_RETRY_LIMIT + 1 /\ attempt <= BOOT_RETRY_LIMIT)
    /\ [](bootAt = "applied" <=> installedVersions = <<patch>>)
    /\ [](bootAt # "applied" => installedVersions = <<>>)
    /\ [](bootAt = "applied" =>
              \A m \in RetrieverMethods \cup SynthesizerMethods :
                  prototypes[m].layers = <<patch>>)
    /\ [][BootEnded => UNCHANGED <<bootAt, attempt, installCalls>>]_vars
    /\ <>BootEnded
    /\ [](TargetClassesDefined(hostClasses) /\ bootAt = "timer" => <>(bootAt = "applied"))

\* the classes appeared just before the last attempt, which installed the patch
C38_Witness ==
    /\ bootAt = "applied"
    /\ attempt = BOOT_RETRY_LIMIT
    /\ installCalls = BOOT_RETRY_LIMIT + 1
    /\ installedVersions = <<patch>>

HasConcepts(chunk) == \E i \in 1..Len(chunkConceptsCache) : chunkConceptsCache[i].k = chunk.id

\* C39: whenever the patched retrieve runs on a non-empty corpus, every chunk
\* of allChunks has an entry in the per-chunk concept cache, whether the
\* corpus was loaded before or after the patch was installed.
C39_GraphBuiltBeforeRetrieve ==
    (rpc = "base" /\ Len(allChunks) > 0) =>
        \A i \in 1..Len(allChunks) : HasConcepts(allChunks[i])

====
